---- MODULE Spec2Model ----
(***************************************************************************)
(* A model of the garden planner (src/src/logic/planner.rs) together with  *)
(* the grid it works on (src/src/models/garden.rs) and the companion       *)
(* scorer (src/src/logic/companion.rs).                                     *)
(*                                                                          *)
(* One behaviour is one call of plan_garden: the initial state holds the    *)
(* arguments (the ranked candidates and the request), PlanStart validates   *)
(* the layout and initialises the grid, PlaceStep runs one iteration of     *)
(* the phase-1 loop, FillStep one iteration of the phase-2 inner loop,      *)
(* FillPassEnd the end-of-sweep test and Finish builds the response.        *)
(* Coordinates are 0-based as in the code; sequences are 1-based.           *)
(***************************************************************************)
EXTENDS Integers, Sequences, FiniteSets, TLC

\* ------------------------------------------------------------- bounds
MaxRows == 2
MaxCols == 3
MaxCands == 2
MaxQty == 2
\* a request carries at most MaxFeatures non-free layout cells and
\* preference entries in total
MaxFeatures == 2
\* a request on a free layout carries at most MaxPrefs preference entries
MaxPrefs == 3
\* a direct call of companion_score passes at most MaxNeighbors neighbours
MaxNeighbors == 3
\* a direct call of filter_vegetables passes at most MaxRankPrefs preference entries
MaxRankPrefs == 2
\* two requests run at once on free layouts of at most MaxPairRows x MaxPairCols
\* cells with at most MaxPairPrefs preference entries each
MaxPairRows == 1
MaxPairCols == 2
MaxPairPrefs == 1
\* a direct call of cell_span or plants_per_cell passes a spacing of at most
\* MaxSpacing, or one of the MaxSpacing + 1 largest 32-bit signed integers
MaxSpacing == 95

\* ------------------------------------------------- program constants
CELL_SIZE_CM == 30
GOOD_COMPANION_SCORE == 2
BAD_COMPANION_SCORE == 0 - 3

Max(x, y) == IF x >= y THEN x ELSE y
Min(x, y) == IF x <= y THEN x ELSE y

\* ------------------------------------------------------- the catalogue
\* The catalogue module (crate::data::vegetables) is a collaborator: three
\* varieties stand for it.  a and b are mutually detrimental span-1
\* varieties, t is a span-2 variety that is a good companion of a.
VegIds == {"a", "b", "t"}
UnknownId == "zz"

Vegetable(id) ==
    CASE id = "a" -> [id |-> "a", spacing_cm |-> 30, good_companions |-> {"t"},
                      bad_companions |-> {"b"}, beginner_friendly |-> TRUE]
      [] id = "b" -> [id |-> "b", spacing_cm |-> 15, good_companions |-> {},
                      bad_companions |-> {"a"}, beginner_friendly |-> FALSE]
      [] id = "t" -> [id |-> "t", spacing_cm |-> 60, good_companions |-> {"a"},
                      bad_companions |-> {}, beginner_friendly |-> TRUE]

\* get_vegetable_by_id: Some(v) exactly for the identifiers of the catalogue
get_vegetable_by_id_found(id) == id \in VegIds

\* ------------------------------------------------------ spacing model
\* the quotient rounded down
div_ceil_floor(x, y) == x \div y

div_ceil(x, y) == (x \div y) + (IF x % y > 0 THEN 1 ELSE 0)

cell_span(spacing_cm) == Max(div_ceil(spacing_cm, CELL_SIZE_CM), 1)

\* plants_per_cell without the square: plants along one axis
plants_per_cell_one_axis(spacing_cm) ==
    IF cell_span(spacing_cm) > 1
    THEN 1
    ELSE Max(CELL_SIZE_CM \div Max(spacing_cm, 1), 1)

plants_per_cell(spacing_cm) ==
    IF cell_span(spacing_cm) > 1
    THEN 1
    ELSE LET per_axis == Max(CELL_SIZE_CM \div Max(spacing_cm, 1), 1)
         IN  per_axis * per_axis

SpanOf(id) == cell_span(Vegetable(id).spacing_cm)

\* ---------------------------------------------------- companion scorer
\* the loop with `else if`: a neighbour in both lists counts as beneficial only
RECURSIVE companion_score_from_else_if(_, _, _)
companion_score_from_else_if(vegetable, neighbor_ids, i) ==
    IF i > Len(neighbor_ids)
    THEN 0
    ELSE (IF neighbor_ids[i] \in vegetable.good_companions
          THEN GOOD_COMPANION_SCORE
          ELSE IF neighbor_ids[i] \in vegetable.bad_companions
          THEN BAD_COMPANION_SCORE ELSE 0)
       + companion_score_from_else_if(vegetable, neighbor_ids, i + 1)

RECURSIVE companion_score_from(_, _, _)
companion_score_from(vegetable, neighbor_ids, i) ==
    IF i > Len(neighbor_ids)
    THEN 0
    ELSE (IF neighbor_ids[i] \in vegetable.good_companions
          THEN GOOD_COMPANION_SCORE ELSE 0)
       + (IF neighbor_ids[i] \in vegetable.bad_companions
          THEN BAD_COMPANION_SCORE ELSE 0)
       + companion_score_from(vegetable, neighbor_ids, i + 1)

companion_score(vegetable, neighbor_ids) ==
    companion_score_from(vegetable, neighbor_ids, 1)

\* is_compatible looking at the first variety's list only
is_compatible_one_sided(a, b) == b.id \notin a.bad_companions

\* is_compatible
is_compatible(a, b) == b.id \notin a.bad_companions /\ a.id \notin b.bad_companions

\* ------------------------------------------------------------ the grid
\* Cell.vegetable: Option<PlacedVegetable>; None is the record NoVeg
NoReason == [kind |-> "none", neighbors |-> << >>]
NoVeg == [id |-> "none", reason |-> NoReason, plants_per_cell |-> 0, span |-> 0,
          anchor_row |-> 0, anchor_col |-> 0]

IsSome(v) == v.id # "none"

EmptyCell == [vegetable |-> NoVeg, blocked |-> FALSE]

Positions(rows, cols) == (0 .. rows - 1) \X (0 .. cols - 1)

\* GardenGrid::new
GardenGrid_new(rows, cols) ==
    [rows |-> rows, cols |-> cols,
     cells |-> [p \in Positions(rows, cols) |-> EmptyCell]]

\* is_block_free without the test of the blocked flag
is_block_free_ignoring_blocked(g, row, col, span) ==
    IF row + span > g.rows \/ col + span > g.cols
    THEN FALSE
    ELSE \A dr \in 0 .. span - 1 : \A dc \in 0 .. span - 1 :
            ~IsSome(g.cells[<<row + dr, col + dc>>].vegetable)

\* is_block_free looking at the top-left cell only
is_block_free_anchor_only(g, row, col, span) ==
    IF row + span > g.rows \/ col + span > g.cols
    THEN FALSE
    ELSE ~(IsSome(g.cells[<<row, col>>].vegetable) \/ g.cells[<<row, col>>].blocked)

\* is_block_free with the bounds test one too strict (>= instead of >)
is_block_free_strict_bound(g, row, col, span) ==
    IF row + span >= g.rows \/ col + span >= g.cols
    THEN FALSE
    ELSE \A dr \in 0 .. span - 1 : \A dc \in 0 .. span - 1 :
            LET cell == g.cells[<<row + dr, col + dc>>]
            IN  ~(IsSome(cell.vegetable) \/ cell.blocked)

\* GardenGrid::is_block_free
is_block_free(g, row, col, span) ==
    IF row + span > g.rows \/ col + span > g.cols
    THEN FALSE
    ELSE \A dr \in 0 .. span - 1 : \A dc \in 0 .. span - 1 :
            LET cell == g.cells[<<row + dr, col + dc>>]
            IN  ~(IsSome(cell.vegetable) \/ cell.blocked)

\* GardenGrid::get_neighbors: the occupied cells up, down, left and right
get_neighbors(g, row, col) ==
    LET directions == <<<<0 - 1, 0>>, <<1, 0>>, <<0, 0 - 1>>, <<0, 1>>>>
        at(k) == <<row + directions[k][1], col + directions[k][2]>>
        hit(k) == at(k) \in DOMAIN g.cells /\ IsSome(g.cells[at(k)].vegetable)
        one(k) == IF hit(k) THEN <<g.cells[at(k)].vegetable>> ELSE << >>
    IN  one(1) \o one(2) \o one(3) \o one(4)

\* the perimeter with the top edge shifted one column to the left: it takes in
\* the upper-left corner
PerimeterCalls_shifted(row, col, span) ==
    [k \in 1 .. 4 * span |->
        LET d == (k - 1) \div 4
            e == (k - 1) % 4
        IN  CASE e = 0 -> <<row - 1, col + d - 1>>
              [] e = 1 -> <<row + span, col + d>>
              [] e = 2 -> <<row + d, col - 1>>
              [] e = 3 -> <<row + d, col + span>>]

\* the coordinates get_block_neighbors hands to `check`, in call order
PerimeterCalls(row, col, span) ==
    [k \in 1 .. 4 * span |->
        LET d == (k - 1) \div 4
            e == (k - 1) % 4
        IN  CASE e = 0 -> <<row - 1, col + d>>
              [] e = 1 -> <<row + span, col + d>>
              [] e = 2 -> <<row + d, col - 1>>
              [] e = 3 -> <<row + d, col + span>>]

\* GardenGrid::get_block_neighbors: the closure `check` applied to each
\* perimeter coordinate; `seen` holds the coordinates already visited
RECURSIVE block_neighbors_from(_, _, _, _)
block_neighbors_from(g, calls, k, seen) ==
    IF k > Len(calls)
    THEN << >>
    ELSE LET r == calls[k][1]
             c == calls[k][2]
         IN  IF r < 0 \/ c < 0 \/ r >= g.rows \/ c >= g.cols
             THEN block_neighbors_from(g, calls, k + 1, seen)
             ELSE IF <<r, c>> \in seen
             THEN block_neighbors_from(g, calls, k + 1, seen)
             ELSE (IF IsSome(g.cells[<<r, c>>].vegetable)
                   THEN <<g.cells[<<r, c>>].vegetable>> ELSE << >>)
                  \o block_neighbors_from(g, calls, k + 1, seen \cup {<<r, c>>})

get_block_neighbors(g, row, col, span) ==
    block_neighbors_from(g, PerimeterCalls(row, col, span), 1, {})

NeighborIds(g, row, col, span) ==
    LET n == get_block_neighbors(g, row, col, span)
    IN  [k \in 1 .. Len(n) |-> n[k].id]

\* ---------------------------------------------------------- HashMap
\* a HashMap<String, usize> is a function on the set of its keys
EmptyMap == [k \in {} |-> 0]
MapGet(m, k, default) == IF k \in DOMAIN m THEN m[k] ELSE default
MapInsert(m, k, v) == [x \in (DOMAIN m) \cup {k} |-> IF x = k THEN v ELSE m[x]]

\* candidates.iter().find(|v| v.id == id): index of the first match, 0 if none
RECURSIVE FindFrom(_, _, _)
FindFrom(cands, id, i) ==
    IF i > Len(cands) THEN 0
    ELSE IF cands[i] = id THEN i
    ELSE FindFrom(cands, id, i + 1)

FindCandidate(cands, id) == FindFrom(cands, id, 1)

NoQuantity == 0 - 1
HasQuantity(pref) == pref.quantity # NoQuantity

\* -------------------------------------------------- allocation planner
\* the loop of compute_explicit_allocation from preference i on
RECURSIVE explicit_allocation_from(_, _, _, _, _)
explicit_allocation_from(cands, prefs, i, allocation, remaining) ==
    IF i > Len(prefs)
    THEN allocation
    ELSE LET pref == prefs[i]
         IN  IF HasQuantity(pref) /\ FindCandidate(cands, pref.id) # 0
             THEN LET cells_per_plant == SpanOf(pref.id) * SpanOf(pref.id)
                      cells_needed == pref.quantity * cells_per_plant
                      alloc == Min(cells_needed, remaining)
                  IN  explicit_allocation_from(cands, prefs, i + 1,
                          MapInsert(allocation, pref.id, alloc),
                          Max(remaining - alloc, 0))
             ELSE explicit_allocation_from(cands, prefs, i + 1, allocation, remaining)

\* compute_explicit_allocation starting from one cell more than available
compute_explicit_allocation_one_more(cands, prefs, available) ==
    explicit_allocation_from(cands, prefs, 1, EmptyMap, available + 1)

compute_explicit_allocation(cands, prefs, available) ==
    explicit_allocation_from(cands, prefs, 1, EmptyMap, available)

\* placement_count without the floor of one placement
placement_count_floor(id, cells) ==
    LET cells_per_slot == SpanOf(id) * SpanOf(id)
    IN  IF cells > 0 THEN cells \div cells_per_slot ELSE 0

\* cells of a reservation -> number of placements
placement_count(id, cells) ==
    LET cells_per_slot == SpanOf(id) * SpanOf(id)
    IN  IF cells > 0 THEN Max(cells \div cells_per_slot, 1) ELSE 0

Repeat(x, n) == [k \in 1 .. n |-> x]

RECURSIVE expand_queue_from(_, _, _, _)
expand_queue_from(cands, prefs, placements, i) ==
    IF i > Len(prefs)
    THEN << >>
    ELSE (IF FindCandidate(cands, prefs[i].id) # 0
          THEN Repeat(prefs[i].id, MapGet(placements, prefs[i].id, 0))
          ELSE << >>)
         \o expand_queue_from(cands, prefs, placements, i + 1)

\* build_placement_queue: (queue, placements_map)
build_placement_queue(cands, prefs, free_cells) ==
    LET allocation == compute_explicit_allocation(cands, prefs, free_cells)
        keys == {cands[i] : i \in 1 .. Len(cands)} \cap DOMAIN allocation
        placements == [id \in keys |-> placement_count(id, allocation[id])]
    IN  [queue |-> expand_queue_from(cands, prefs, placements, 1),
         placements_map |-> placements]

\* ------------------------------------------------------- greedy placer
NoBlock == [found |-> FALSE, r |-> 0, c |-> 0, score |-> 0]

\* the scan with exclusive ranges (0..rows-span instead of 0..=rows-span)
ScanPositions_exclusive(rows, cols, span) ==
    LET nr == Max(rows - span, 0)
        nc == Max(cols - span, 0)
    IN  [k \in 1 .. nr * nc |-> <<(k - 1) \div nc, (k - 1) % nc>>]

\* the (r, c) pairs of the two nested loops of find_best_block, in order
ScanPositions(rows, cols, span) ==
    LET nr == Max(rows - span, 0) + 1
        nc == Max(cols - span, 0) + 1
    IN  [k \in 1 .. nr * nc |-> <<(k - 1) \div nc, (k - 1) % nc>>]

BlockScore(g, id, r, c) ==
    companion_score(Vegetable(id), NeighborIds(g, r, c, SpanOf(id)))

\* the comparison with >= : the last block of maximal score wins
Better_or_equal(best, score) == ~best.found \/ score >= best.score

\* the comparison reversed: the block of minimal score wins
Better_less(best, score) == ~best.found \/ score < best.score

\* best.is_none_or(|(_, _, s)| score > s)
Better(best, score) == ~best.found \/ score > best.score

RECURSIVE best_block_from(_, _, _, _, _)
best_block_from(g, id, scan, k, best) ==
    IF k > Len(scan)
    THEN best
    ELSE LET r == scan[k][1]
             c == scan[k][2]
         IN  IF ~is_block_free(g, r, c, SpanOf(id))
             THEN best_block_from(g, id, scan, k + 1, best)
             ELSE LET score == BlockScore(g, id, r, c)
                  IN  IF Better(best, score)
                      THEN best_block_from(g, id, scan, k + 1,
                               [found |-> TRUE, r |-> r, c |-> c, score |-> score])
                      ELSE best_block_from(g, id, scan, k + 1, best)

find_best_block(g, id) ==
    best_block_from(g, id, ScanPositions(g.rows, g.cols, SpanOf(id)), 1, NoBlock)

\* build_reason; a variety's name stands for itself
build_reason(id, neighbor_names, score) ==
    IF Len(neighbor_names) = 0
    THEN [kind |-> "first", neighbors |-> << >>]
    ELSE [kind |-> IF score > 0 THEN "good"
                   ELSE IF score < 0 THEN "constrained" ELSE "neutral",
          neighbors |-> neighbor_names]

\* the cells fill_block writes
BlockCells(row, col, span) == (row .. row + span - 1) \X (col .. col + span - 1)

\* fill_block writing the anchor cell only
fill_block_anchor_only(g, id, row, col, reason) ==
    LET placed == [id |-> id, reason |-> reason,
                   plants_per_cell |-> plants_per_cell(Vegetable(id).spacing_cm),
                   span |-> SpanOf(id), anchor_row |-> row, anchor_col |-> col]
    IN  [g EXCEPT !.cells[<<row, col>>].vegetable = placed]

\* fill_block with inclusive ranges (0..=span): one row and one column too many
fill_block_inclusive(g, id, row, col, reason) ==
    LET span == SpanOf(id)
        ppc == plants_per_cell(Vegetable(id).spacing_cm)
        placed == [id |-> id, reason |-> reason, plants_per_cell |-> ppc,
                   span |-> span, anchor_row |-> row, anchor_col |-> col]
    IN  [g EXCEPT !.cells =
            [p \in DOMAIN g.cells |->
                IF p \in BlockCells(row, col, span + 1)
                THEN [g.cells[p] EXCEPT !.vegetable = placed]
                ELSE g.cells[p]]]

fill_block(g, id, row, col, reason) ==
    LET span == SpanOf(id)
        ppc == plants_per_cell(Vegetable(id).spacing_cm)
        placed == [id |-> id, reason |-> reason, plants_per_cell |-> ppc,
                   span |-> span, anchor_row |-> row, anchor_col |-> col]
    IN  [g EXCEPT !.cells =
            [p \in DOMAIN g.cells |->
                IF p \in BlockCells(row, col, span)
                THEN [g.cells[p] EXCEPT !.vegetable = placed]
                ELSE g.cells[p]]]

\* the Some((r, c, score)) arm shared by place_candidates and fill_remaining_cells
Commit(g, id, best) ==
    LET reason == build_reason(id, NeighborIds(g, best.r, best.c, SpanOf(id)), best.score)
    IN  fill_block(g, id, best.r, best.c, reason)

\* ------------------------------------------------- request and response
\* LayoutCell: Free(()), Blocked(bool), Planted(id)
Free == [kind |-> "Free", flag |-> FALSE, id |-> "none"]
Blocked(flag) == [kind |-> "Blocked", flag |-> flag, id |-> "none"]
Planted(id) == [kind |-> "Planted", flag |-> FALSE, id |-> id]

\* warnings, by the text the code formats
NotFoundWarning(id) == [kind |-> "not_found", id |-> id, count |-> 0]
FullyOccupiedWarning == [kind |-> "fully_occupied", id |-> "none", count |-> 0]
EmptyCellsWarning(n) == [kind |-> "empty_cells", id |-> "none", count |-> n]

\* validate_layout without the test of the first row
validate_layout_rows_only(layout) ==
    IF Len(layout) = 0
    THEN [ok |-> FALSE, error |-> "no_rows", rows |-> 0, cols |-> 0]
    ELSE [ok |-> TRUE, error |-> "none", rows |-> Len(layout), cols |-> Len(layout[1])]

\* validate_layout: Ok((rows, cols)) or Err(message)
validate_layout(layout) ==
    IF Len(layout) = 0
    THEN [ok |-> FALSE, error |-> "no_rows", rows |-> 0, cols |-> 0]
    ELSE IF Len(layout[1]) = 0
    THEN [ok |-> FALSE, error |-> "empty_row", rows |-> 0, cols |-> 0]
    ELSE [ok |-> TRUE, error |-> "none", rows |-> Len(layout), cols |-> Len(layout[1])]

\* the pre-placed vegetable initialize_grid writes at (r, c)
\* a pre-planted placement with the span derived from the variety's spacing
PrePlaced_derived_span(id, r, c) ==
    [id |-> id, reason |-> [kind |-> "existing", neighbors |-> << >>],
     plants_per_cell |-> plants_per_cell(Vegetable(id).spacing_cm),
     span |-> SpanOf(id), anchor_row |-> r, anchor_col |-> c]

PrePlaced(id, r, c) ==
    [id |-> id, reason |-> [kind |-> "existing", neighbors |-> << >>],
     plants_per_cell |-> plants_per_cell(Vegetable(id).spacing_cm),
     span |-> 1, anchor_row |-> r, anchor_col |-> c]

\* initialize_grid closing a cell whose identifier is unknown: the cell is blocked
RECURSIVE initialize_from_unknown_blocked(_, _, _, _, _)
initialize_from_unknown_blocked(layout, i, j, g, warns) ==
    IF i > Len(layout)
    THEN [grid |-> g, warnings |-> warns, panicked |-> FALSE]
    ELSE IF j > Len(layout[i])
    THEN initialize_from_unknown_blocked(layout, i + 1, 1, g, warns)
    ELSE LET cell == layout[i][j]
             p == <<i - 1, j - 1>>
         IN  IF cell.kind = "Blocked" /\ cell.flag
             THEN IF p \notin DOMAIN g.cells
                  THEN [grid |-> g, warnings |-> warns, panicked |-> TRUE]
                  ELSE initialize_from_unknown_blocked(layout, i, j + 1,
                          [g EXCEPT !.cells[p].blocked = TRUE], warns)
             ELSE IF cell.kind = "Planted"
             THEN IF get_vegetable_by_id_found(cell.id)
                  THEN IF p \notin DOMAIN g.cells
                       THEN [grid |-> g, warnings |-> warns, panicked |-> TRUE]
                       ELSE initialize_from_unknown_blocked(layout, i, j + 1,
                               [g EXCEPT !.cells[p].vegetable = PrePlaced(cell.id, i - 1, j - 1)],
                               warns)
                  ELSE IF p \notin DOMAIN g.cells
                       THEN [grid |-> g, warnings |-> warns, panicked |-> TRUE]
                       ELSE initialize_from_unknown_blocked(layout, i, j + 1,
                               [g EXCEPT !.cells[p].blocked = TRUE],
                               Append(warns, NotFoundWarning(cell.id)))
             ELSE initialize_from_unknown_blocked(layout, i, j + 1, g, warns)

\* the two nested loops of initialize_grid from layout[i][j] on (1-based);
\* grid.cells[r][c] with c outside the grid aborts the run (index out of bounds)
RECURSIVE initialize_from(_, _, _, _, _)
initialize_from(layout, i, j, g, warns) ==
    IF i > Len(layout)
    THEN [grid |-> g, warnings |-> warns, panicked |-> FALSE]
    ELSE IF j > Len(layout[i])
    THEN initialize_from(layout, i + 1, 1, g, warns)
    ELSE LET cell == layout[i][j]
             p == <<i - 1, j - 1>>
         IN  IF cell.kind = "Blocked" /\ cell.flag
             THEN IF p \notin DOMAIN g.cells
                  THEN [grid |-> g, warnings |-> warns, panicked |-> TRUE]
                  ELSE initialize_from(layout, i, j + 1,
                          [g EXCEPT !.cells[p].blocked = TRUE], warns)
             ELSE IF cell.kind = "Planted"
             THEN IF get_vegetable_by_id_found(cell.id)
                  THEN IF p \notin DOMAIN g.cells
                       THEN [grid |-> g, warnings |-> warns, panicked |-> TRUE]
                       ELSE initialize_from(layout, i, j + 1,
                               [g EXCEPT !.cells[p].vegetable = PrePlaced(cell.id, i - 1, j - 1)],
                               warns)
                  ELSE initialize_from(layout, i, j + 1, g,
                          Append(warns, NotFoundWarning(cell.id)))
             ELSE initialize_from(layout, i, j + 1, g, warns)

initialize_grid(rows, cols, layout) ==
    initialize_from(layout, 1, 1, GardenGrid_new(rows, cols), << >>)

\* count_grid_occupancy
OccupiedCells(g) == {p \in DOMAIN g.cells : IsSome(g.cells[p].vegetable)}
BlockedCells(g) == {p \in DOMAIN g.cells : g.cells[p].blocked}
count_grid_occupancy(g) ==
    [occupied |-> Cardinality(OccupiedCells(g)), blocked |-> Cardinality(BlockedCells(g))]

FreeCells(g) == {p \in DOMAIN g.cells : ~IsSome(g.cells[p].vegetable) /\ ~g.cells[p].blocked}

\* empty_cells_warning adding one warning per empty cell
empty_cells_warning_per_cell(g) ==
    [k \in 1 .. Cardinality(FreeCells(g)) |-> EmptyCellsWarning(1)]

\* empty_cells_warning: the warnings it adds
empty_cells_warning(g) ==
    LET empty == Cardinality(FreeCells(g))
    IN  IF empty > 0 THEN <<EmptyCellsWarning(empty)>> ELSE << >>

\* placed_counts starting empty: pre-planted cells are not counted
seed_placed_counts_none(g) == EmptyMap

\* the fold that seeds placed_counts in place_candidates
seed_placed_counts(g) ==
    LET ids == {g.cells[p].vegetable.id : p \in OccupiedCells(g)}
    IN  [id \in ids |-> Cardinality({p \in OccupiedCells(g) : g.cells[p].vegetable.id = id})]

\* PlannedCell
\* a variant without a covered_by field
NoCoveredBy == 0 - 1

NoCell == [type |-> "Empty", id |-> "none", reason |-> NoReason, plants_per_cell |-> 0,
           width_cells |-> 0, length_cells |-> 0,
           covered_by_row |-> NoCoveredBy, covered_by_col |-> NoCoveredBy]

\* the match of build_response without the Blocked arm
planned_cell_no_blocked(cell, ro, co) ==
    LET v == cell.vegetable
    IN  IF IsSome(v) /\ ro = v.anchor_row /\ co = v.anchor_col /\ v.span = 1
        THEN [NoCell EXCEPT !.type = "SelfContained", !.id = v.id, !.reason = v.reason,
                            !.plants_per_cell = v.plants_per_cell]
        ELSE IF IsSome(v) /\ ro = v.anchor_row /\ co = v.anchor_col
        THEN [NoCell EXCEPT !.type = "Overflowing", !.id = v.id, !.reason = v.reason,
                            !.plants_per_cell = v.plants_per_cell,
                            !.width_cells = v.span, !.length_cells = v.span]
        ELSE IF IsSome(v)
        THEN [NoCell EXCEPT !.type = "Overflowed", !.covered_by_row = v.anchor_row,
                            !.covered_by_col = v.anchor_col]
        ELSE NoCell

\* the match of build_response with the Overflowed arm naming the cell itself
planned_cell_covered_by_self(cell, ro, co) ==
    LET v == cell.vegetable
    IN  IF IsSome(v) /\ ro = v.anchor_row /\ co = v.anchor_col /\ v.span = 1
        THEN [NoCell EXCEPT !.type = "SelfContained", !.id = v.id, !.reason = v.reason,
                            !.plants_per_cell = v.plants_per_cell]
        ELSE IF IsSome(v) /\ ro = v.anchor_row /\ co = v.anchor_col
        THEN [NoCell EXCEPT !.type = "Overflowing", !.id = v.id, !.reason = v.reason,
                            !.plants_per_cell = v.plants_per_cell,
                            !.width_cells = v.span, !.length_cells = v.span]
        ELSE IF IsSome(v)
        THEN [NoCell EXCEPT !.type = "Overflowed", !.covered_by_row = ro,
                            !.covered_by_col = co]
        ELSE IF cell.blocked
        THEN [NoCell EXCEPT !.type = "Blocked"]
        ELSE NoCell

planned_cell(cell, ro, co) ==
    LET v == cell.vegetable
    IN  IF IsSome(v) /\ ro = v.anchor_row /\ co = v.anchor_col /\ v.span = 1
        THEN [NoCell EXCEPT !.type = "SelfContained", !.id = v.id, !.reason = v.reason,
                            !.plants_per_cell = v.plants_per_cell]
        ELSE IF IsSome(v) /\ ro = v.anchor_row /\ co = v.anchor_col
        THEN [NoCell EXCEPT !.type = "Overflowing", !.id = v.id, !.reason = v.reason,
                            !.plants_per_cell = v.plants_per_cell,
                            !.width_cells = v.span, !.length_cells = v.span]
        ELSE IF IsSome(v)
        THEN [NoCell EXCEPT !.type = "Overflowed", !.covered_by_row = v.anchor_row,
                            !.covered_by_col = v.anchor_col]
        ELSE IF cell.blocked
        THEN [NoCell EXCEPT !.type = "Blocked"]
        ELSE NoCell

NoResponse == [status |-> "none", error |-> "none", grid |-> << >>, rows |-> 0, cols |-> 0,
               score |-> 0, warnings |-> << >>]

build_response(g, rows, cols, score, warns) ==
    [status |-> "Ok", error |-> "none",
     grid |-> [p \in DOMAIN g.cells |-> planned_cell(g.cells[p], p[1], p[2])],
     rows |-> rows, cols |-> cols, score |-> score, warnings |-> warns]

ErrResponse(error) == [NoResponse EXCEPT !.status = "Err", !.error = error]

\* --------------------------------------------------------------- state
VARIABLES
    candidates,           \* plan_garden's argument: the ranked varieties (identifiers)
    request,              \* plan_garden's argument: [layout, preferences]
    pc,                   \* "start", "phase1", "phase2", "finish", "done", "panic"
    grid,                 \* the GardenGrid
    warnings,             \* the warnings collected so far
    queue,                \* the placement queue of phase 1
    placements_map,       \* the per-variety placement cap of phase 1
    placed_counts,        \* place_candidates: placements counted per variety
    qi,                   \* place_candidates: index of the next queue entry
    score_phase1,         \* place_candidates: global_score
    ci,                   \* fill_remaining_cells: index of the next candidate
    placements_this_pass, \* fill_remaining_cells: commits of the current sweep
    score_phase2,         \* fill_remaining_cells: total_score
    response,             \* what plan_garden returns
    call,                 \* a direct call of one of the pure functions: its arguments
    result,               \* what that call returned
    suspended             \* the locals of a second plan_garden call that is not running

vars == <<candidates, request, pc, grid, warnings, queue, placements_map, placed_counts,
          qi, score_phase1, ci, placements_this_pass, score_phase2, response,
          call, result, suspended>>

\* no direct call of a pure function is under way
NoCall == [fn |-> "none"]
NoResult == [kind |-> "none"]

\* no second call of plan_garden is under way
NoSuspended == [pc |-> "none"]

\* ------------------------------------------------------------ inputs
InjectiveSeqs(S, n) ==
    {s \in UNION {[1 .. k -> S] : k \in 0 .. n} :
        \A i \in DOMAIN s : \A j \in DOMAIN s : i # j => s[i] # s[j]}

CandidateLists == InjectiveSeqs(VegIds, MaxCands)

Quantities == {NoQuantity} \cup (0 .. MaxQty)
PreferenceEntries == [id : VegIds, quantity : Quantities]
PreferenceLists(n) == UNION {[1 .. k -> PreferenceEntries] : k \in 0 .. n}

NonFreeCells == {Blocked(TRUE), Blocked(FALSE)} \cup {Planted(id) : id \in VegIds \cup {UnknownId}}

\* rectangular layouts of rows x cols cells with exactly the cells of S not Free
LayoutsOn(rows, cols, S) ==
    {[i \in 1 .. rows |-> [j \in 1 .. cols |->
            IF <<i - 1, j - 1>> \in S THEN f[<<i - 1, j - 1>>] ELSE Free]] :
        f \in [S -> NonFreeCells]}

Requests ==
    UNION {UNION {UNION {
        [layout : LayoutsOn(rows, cols, S),
         preferences : PreferenceLists(MaxFeatures - Cardinality(S))] :
            S \in {T \in SUBSET Positions(rows, cols) : Cardinality(T) <= MaxFeatures}} :
        cols \in 0 .. MaxCols} : rows \in 0 .. MaxRows}

Init ==
    /\ candidates \in CandidateLists
    /\ request \in Requests
    /\ pc = "start"
    /\ grid = GardenGrid_new(0, 0)
    /\ warnings = << >>
    /\ queue = << >>
    /\ placements_map = EmptyMap
    /\ placed_counts = EmptyMap
    /\ qi = 1
    /\ score_phase1 = 0
    /\ ci = 1
    /\ placements_this_pass = 0
    /\ score_phase2 = 0
    /\ response = NoResponse
    /\ call = NoCall
    /\ suspended = NoSuspended
    /\ result = NoResult

\* layouts whose rows have lengths of their own (a JSON array of arrays): row i
\* has lens[i] cells, exactly the cells of S are not Free
RaggedPositions(lens) ==
    {p \in (0 .. Len(lens) - 1) \X (0 .. MaxCols - 1) : p[2] < lens[p[1] + 1]}

RaggedLayoutsOn(lens, S) ==
    {[i \in 1 .. Len(lens) |-> [j \in 1 .. lens[i] |->
            IF <<i - 1, j - 1>> \in S THEN f[<<i - 1, j - 1>>] ELSE Free]] :
        f \in [S -> NonFreeCells]}

RaggedRequests ==
    UNION {UNION {UNION {
        [layout : RaggedLayoutsOn(lens, S),
         preferences : PreferenceLists(MaxFeatures - Cardinality(S))] :
            S \in {T \in SUBSET RaggedPositions(lens) : Cardinality(T) <= MaxFeatures}} :
        lens \in [1 .. rows -> 0 .. MaxCols]} : rows \in 0 .. MaxRows}

\* plan_garden called with a layout of any shape
RaggedInit ==
    /\ candidates \in CandidateLists
    /\ request \in RaggedRequests
    /\ pc = "start"
    /\ grid = GardenGrid_new(0, 0)
    /\ warnings = << >>
    /\ queue = << >>
    /\ placements_map = EmptyMap
    /\ placed_counts = EmptyMap
    /\ qi = 1
    /\ score_phase1 = 0
    /\ ci = 1
    /\ placements_this_pass = 0
    /\ score_phase2 = 0
    /\ response = NoResponse
    /\ call = NoCall
    /\ suspended = NoSuspended
    /\ result = NoResult

\* entirely free rectangular layouts, one column wider than the layouts of Requests
FreeLayouts ==
    UNION {UNION {LayoutsOn(rows, cols, {}) : cols \in 1 .. MaxCols + 1} : rows \in 1 .. MaxRows}

\* preference lists of up to MaxPrefs entries that name candidates
CandidatePreferenceLists(cands) ==
    UNION {[1 .. k -> [id : {cands[i] : i \in DOMAIN cands}, quantity : Quantities]] :
              k \in 0 .. MaxPrefs}

\* plan_garden called on a free layout with a full candidate list and longer
\* preference lists
FreeInit ==
    /\ candidates \in {c \in CandidateLists : Len(c) = MaxCands}
    /\ request \in [layout : FreeLayouts, preferences : CandidatePreferenceLists(candidates)]
    /\ pc = "start"
    /\ grid = GardenGrid_new(0, 0)
    /\ warnings = << >>
    /\ queue = << >>
    /\ placements_map = EmptyMap
    /\ placed_counts = EmptyMap
    /\ qi = 1
    /\ score_phase1 = 0
    /\ ci = 1
    /\ placements_this_pass = 0
    /\ score_phase2 = 0
    /\ response = NoResponse
    /\ call = NoCall
    /\ suspended = NoSuspended
    /\ result = NoResult

\* ------------------------------------------------------------ actions
\* PlanStart without the early return on a fully occupied grid
PlanStart_no_early_return ==
    /\ pc = "start"
    /\ LET v == validate_layout(request.layout)
       IN  IF ~v.ok
           THEN /\ pc' = "done"
                /\ response' = ErrResponse(v.error)
                /\ UNCHANGED <<grid, warnings, queue, placements_map, placed_counts>>
           ELSE LET init == initialize_grid(v.rows, v.cols, request.layout)
                    occ == count_grid_occupancy(init.grid)
                    available_cells == Max(v.rows * v.cols - occ.blocked, 0)
                    free_cells == Max(available_cells - occ.occupied, 0)
                    built == build_placement_queue(candidates, request.preferences, free_cells)
                IN  IF init.panicked
                    THEN /\ pc' = "panic"
                         /\ UNCHANGED <<grid, warnings, queue, placements_map,
                                        placed_counts, response>>
                    ELSE /\ pc' = IF Len(built.queue) = 0 THEN "phase2" ELSE "phase1"
                         /\ grid' = init.grid
                         /\ warnings' = init.warnings
                         /\ queue' = built.queue
                         /\ placements_map' = built.placements_map
                         /\ placed_counts' = seed_placed_counts(init.grid)
                         /\ UNCHANGED response
    /\ UNCHANGED <<suspended, call, result, candidates, request, qi, score_phase1, ci, placements_this_pass,
                   score_phase2>>

\* the orders in which a HashMap may hand out its keys
KeyOrders(m) ==
    {o \in [1 .. Cardinality(DOMAIN m) -> DOMAIN m] :
        \A i \in DOMAIN o : \A j \in DOMAIN o : i # j => o[i] # o[j]}

RECURSIVE expand_in_order(_, _, _)
expand_in_order(order, placements, i) ==
    IF i > Len(order)
    THEN << >>
    ELSE Repeat(order[i], placements[order[i]]) \o expand_in_order(order, placements, i + 1)

\* PlanStart with the queue expanded by iterating placements_map instead of the
\* preference list
PlanStart_queue_in_map_order ==
    /\ pc = "start"
    /\ LET v == validate_layout(request.layout)
       IN  IF ~v.ok
           THEN /\ pc' = "done"
                /\ response' = ErrResponse(v.error)
                /\ UNCHANGED <<grid, warnings, queue, placements_map, placed_counts>>
           ELSE LET init == initialize_grid(v.rows, v.cols, request.layout)
                    occ == count_grid_occupancy(init.grid)
                    available_cells == Max(v.rows * v.cols - occ.blocked, 0)
                    free_cells == Max(available_cells - occ.occupied, 0)
                    built == build_placement_queue(candidates, request.preferences, free_cells)
                IN  IF init.panicked
                    THEN /\ pc' = "panic"
                         /\ UNCHANGED <<grid, warnings, queue, placements_map,
                                        placed_counts, response>>
                    ELSE IF occ.occupied >= available_cells
                    THEN /\ pc' = "done"
                         /\ grid' = init.grid
                         /\ warnings' = Append(init.warnings, FullyOccupiedWarning)
                         /\ response' = build_response(init.grid, v.rows, v.cols, 0,
                                            Append(init.warnings, FullyOccupiedWarning))
                         /\ UNCHANGED <<queue, placements_map, placed_counts>>
                    ELSE \E order \in KeyOrders(built.placements_map) :
                         LET q == expand_in_order(order, built.placements_map, 1)
                         IN  /\ pc' = IF Len(q) = 0 THEN "phase2" ELSE "phase1"
                             /\ grid' = init.grid
                             /\ warnings' = init.warnings
                             /\ queue' = q
                             /\ placements_map' = built.placements_map
                             /\ placed_counts' = seed_placed_counts(init.grid)
                             /\ UNCHANGED response
    /\ UNCHANGED <<suspended, call, result, candidates, request, qi, score_phase1, ci, placements_this_pass,
                   score_phase2>>

\* plan_garden up to the first iteration of phase 1: validate_layout,
\* initialize_grid, count_grid_occupancy, the fully-occupied early return,
\* build_placement_queue and the seeding of placed_counts
PlanStart ==
    /\ pc = "start"
    /\ LET v == validate_layout(request.layout)
       IN  IF ~v.ok
           THEN /\ pc' = "done"
                /\ response' = ErrResponse(v.error)
                /\ UNCHANGED <<grid, warnings, queue, placements_map, placed_counts>>
           ELSE LET init == initialize_grid(v.rows, v.cols, request.layout)
                    occ == count_grid_occupancy(init.grid)
                    available_cells == Max(v.rows * v.cols - occ.blocked, 0)
                    free_cells == Max(available_cells - occ.occupied, 0)
                    built == build_placement_queue(candidates, request.preferences, free_cells)
                IN  IF init.panicked
                    THEN /\ pc' = "panic"
                         /\ UNCHANGED <<grid, warnings, queue, placements_map,
                                        placed_counts, response>>
                    ELSE IF occ.occupied >= available_cells
                    THEN /\ pc' = "done"
                         /\ grid' = init.grid
                         /\ warnings' = Append(init.warnings, FullyOccupiedWarning)
                         /\ response' = build_response(init.grid, v.rows, v.cols, 0,
                                            Append(init.warnings, FullyOccupiedWarning))
                         /\ UNCHANGED <<queue, placements_map, placed_counts>>
                    ELSE /\ pc' = IF Len(built.queue) = 0 THEN "phase2" ELSE "phase1"
                         /\ grid' = init.grid
                         /\ warnings' = init.warnings
                         /\ queue' = built.queue
                         /\ placements_map' = built.placements_map
                         /\ placed_counts' = seed_placed_counts(init.grid)
                         /\ UNCHANGED response
    /\ UNCHANGED <<suspended, call, result, candidates, request, qi, score_phase1, ci, placements_this_pass,
                   score_phase2>>

\* PlaceStep with the cap test off by one (placed + 1 >= max_count)
PlaceStep_cap_off_by_one ==
    /\ pc = "phase1"
    /\ qi <= Len(queue)
    /\ LET id == queue[qi]
           max_count == MapGet(placements_map, id, 0)
           best == find_best_block(grid, id)
           next_pc == IF qi + 1 > Len(queue) THEN "phase2" ELSE "phase1"
       IN  IF MapGet(placed_counts, id, 0) + 1 >= max_count
           THEN /\ pc' = next_pc
                /\ qi' = qi + 1
                /\ UNCHANGED <<grid, placed_counts, score_phase1>>
           ELSE IF ~best.found /\ SpanOf(id) = 1
           THEN /\ pc' = "phase2"
                /\ UNCHANGED <<grid, placed_counts, score_phase1, qi>>
           ELSE IF ~best.found
           THEN /\ pc' = next_pc
                /\ qi' = qi + 1
                /\ UNCHANGED <<grid, placed_counts, score_phase1>>
           ELSE /\ pc' = next_pc
                /\ qi' = qi + 1
                /\ grid' = Commit(grid, id, best)
                /\ placed_counts' = MapInsert(placed_counts, id, MapGet(placed_counts, id, 0) + 1)
                /\ score_phase1' = score_phase1 + best.score
    /\ UNCHANGED <<suspended, call, result, candidates, request, warnings, queue, placements_map, ci,
                   placements_this_pass, score_phase2, response>>

\* PlaceStep without the break: an entry of span 1 without a free cell is skipped
PlaceStep_no_break ==
    /\ pc = "phase1"
    /\ qi <= Len(queue)
    /\ LET id == queue[qi]
           max_count == MapGet(placements_map, id, 0)
           best == find_best_block(grid, id)
           next_pc == IF qi + 1 > Len(queue) THEN "phase2" ELSE "phase1"
       IN  IF MapGet(placed_counts, id, 0) >= max_count
           THEN /\ pc' = next_pc
                /\ qi' = qi + 1
                /\ UNCHANGED <<grid, placed_counts, score_phase1>>
           ELSE IF ~best.found
           THEN /\ pc' = next_pc
                /\ qi' = qi + 1
                /\ UNCHANGED <<grid, placed_counts, score_phase1>>
           ELSE /\ pc' = next_pc
                /\ qi' = qi + 1
                /\ grid' = Commit(grid, id, best)
                /\ placed_counts' = MapInsert(placed_counts, id, MapGet(placed_counts, id, 0) + 1)
                /\ score_phase1' = score_phase1 + best.score
    /\ UNCHANGED <<suspended, call, result, candidates, request, warnings, queue, placements_map, ci,
                   placements_this_pass, score_phase2, response>>

\* PlaceStep with the break taken for every entry without a free block,
\* whatever its span
PlaceStep_break_on_any_span ==
    /\ pc = "phase1"
    /\ qi <= Len(queue)
    /\ LET id == queue[qi]
           max_count == MapGet(placements_map, id, 0)
           best == find_best_block(grid, id)
           next_pc == IF qi + 1 > Len(queue) THEN "phase2" ELSE "phase1"
       IN  IF MapGet(placed_counts, id, 0) >= max_count
           THEN /\ pc' = next_pc
                /\ qi' = qi + 1
                /\ UNCHANGED <<grid, placed_counts, score_phase1>>
           ELSE IF ~best.found
           THEN /\ pc' = "phase2"
                /\ UNCHANGED <<grid, placed_counts, score_phase1, qi>>
           ELSE /\ pc' = next_pc
                /\ qi' = qi + 1
                /\ grid' = Commit(grid, id, best)
                /\ placed_counts' = MapInsert(placed_counts, id, MapGet(placed_counts, id, 0) + 1)
                /\ score_phase1' = score_phase1 + best.score
    /\ UNCHANGED <<suspended, call, result, candidates, request, warnings, queue, placements_map, ci,
                   placements_this_pass, score_phase2, response>>

\* one iteration of the 'outer loop of place_candidates; the loop ends after
\* the last queue entry or at the break
PlaceStep ==
    /\ pc = "phase1"
    /\ qi <= Len(queue)
    /\ LET id == queue[qi]
           max_count == MapGet(placements_map, id, 0)
           best == find_best_block(grid, id)
           next_pc == IF qi + 1 > Len(queue) THEN "phase2" ELSE "phase1"
       IN  IF MapGet(placed_counts, id, 0) >= max_count
           THEN /\ pc' = next_pc
                /\ qi' = qi + 1
                /\ UNCHANGED <<grid, placed_counts, score_phase1>>
           ELSE IF ~best.found /\ SpanOf(id) = 1
           THEN /\ pc' = "phase2"
                /\ UNCHANGED <<grid, placed_counts, score_phase1, qi>>
           ELSE IF ~best.found
           THEN /\ pc' = next_pc
                /\ qi' = qi + 1
                /\ UNCHANGED <<grid, placed_counts, score_phase1>>
           ELSE /\ pc' = next_pc
                /\ qi' = qi + 1
                /\ grid' = Commit(grid, id, best)
                /\ placed_counts' = MapInsert(placed_counts, id, MapGet(placed_counts, id, 0) + 1)
                /\ score_phase1' = score_phase1 + best.score
    /\ UNCHANGED <<suspended, call, result, candidates, request, warnings, queue, placements_map, ci,
                   placements_this_pass, score_phase2, response>>

\* FillStep that leaves the phase at the first candidate without a free block
FillStep_early_exit ==
    /\ pc = "phase2"
    /\ ci <= Len(candidates)
    /\ LET id == candidates[ci]
           best == find_best_block(grid, id)
       IN  IF ~best.found
           THEN pc' = "finish" /\ UNCHANGED <<grid, score_phase2, placements_this_pass, ci>>
           ELSE /\ grid' = Commit(grid, id, best)
                /\ score_phase2' = score_phase2 + best.score
                /\ placements_this_pass' = placements_this_pass + 1
                /\ ci' = ci + 1
                /\ pc' = pc
    /\ UNCHANGED <<suspended, call, result, candidates, request, warnings, queue, placements_map, placed_counts,
                   qi, score_phase1, response>>

\* FillStep trying the preferred varieties first, candidates or not
FillStep_preferences_first ==
    /\ pc = "phase2"
    /\ ci <= Len(candidates)
    /\ LET id == IF ci <= Len(request.preferences)
                 THEN request.preferences[ci].id ELSE candidates[ci]
           best == find_best_block(grid, id)
       IN  IF ~best.found
           THEN UNCHANGED <<grid, score_phase2, placements_this_pass>>
           ELSE /\ grid' = Commit(grid, id, best)
                /\ score_phase2' = score_phase2 + best.score
                /\ placements_this_pass' = placements_this_pass + 1
    /\ ci' = ci + 1
    /\ UNCHANGED <<suspended, call, result, candidates, request, pc, warnings, queue, placements_map, placed_counts,
                   qi, score_phase1, response>>

\* one iteration of the inner loop of fill_remaining_cells
FillStep ==
    /\ pc = "phase2"
    /\ ci <= Len(candidates)
    /\ LET id == candidates[ci]
           best == find_best_block(grid, id)
       IN  IF ~best.found
           THEN UNCHANGED <<grid, score_phase2, placements_this_pass>>
           ELSE /\ grid' = Commit(grid, id, best)
                /\ score_phase2' = score_phase2 + best.score
                /\ placements_this_pass' = placements_this_pass + 1
    /\ ci' = ci + 1
    /\ UNCHANGED <<suspended, call, result, candidates, request, pc, warnings, queue, placements_map, placed_counts,
                   qi, score_phase1, response>>

\* the end of a sweep without the break: a sweep always follows
FillPassEnd_never_breaks ==
    /\ pc = "phase2"
    /\ ci > Len(candidates)
    /\ pc' = "phase2" /\ ci' = 1 /\ placements_this_pass' = 0
    /\ UNCHANGED <<suspended, call, result, candidates, request, grid, warnings, queue, placements_map, placed_counts,
                   qi, score_phase1, score_phase2, response>>

\* the end of a sweep without the loop: the phase ends after one sweep
FillPassEnd_single_sweep ==
    /\ pc = "phase2"
    /\ ci > Len(candidates)
    /\ pc' = "finish" /\ UNCHANGED <<ci, placements_this_pass>>
    /\ UNCHANGED <<suspended, call, result, candidates, request, grid, warnings, queue, placements_map, placed_counts,
                   qi, score_phase1, score_phase2, response>>

\* the end of a sweep of fill_remaining_cells: another sweep, or the break
FillPassEnd ==
    /\ pc = "phase2"
    /\ ci > Len(candidates)
    /\ IF placements_this_pass = 0
       THEN pc' = "finish" /\ UNCHANGED <<ci, placements_this_pass>>
       ELSE pc' = "phase2" /\ ci' = 1 /\ placements_this_pass' = 0
    /\ UNCHANGED <<suspended, call, result, candidates, request, grid, warnings, queue, placements_map, placed_counts,
                   qi, score_phase1, score_phase2, response>>

\* the tail of plan_garden returning the score of phase 2 alone
Finish_phase2_score_only ==
    /\ pc = "finish"
    /\ LET score == score_phase2
           warns == warnings \o empty_cells_warning(grid)
       IN  /\ warnings' = warns
           /\ response' = build_response(grid, grid.rows, grid.cols, score, warns)
    /\ pc' = "done"
    /\ UNCHANGED <<suspended, call, result, candidates, request, grid, queue, placements_map, placed_counts,
                   qi, score_phase1, ci, placements_this_pass, score_phase2>>

\* the tail of plan_garden: the score, empty_cells_warning and build_response
Finish ==
    /\ pc = "finish"
    /\ LET score == score_phase1 + score_phase2
           warns == warnings \o empty_cells_warning(grid)
       IN  /\ warnings' = warns
           /\ response' = build_response(grid, grid.rows, grid.cols, score, warns)
    /\ pc' = "done"
    /\ UNCHANGED <<suspended, call, result, candidates, request, grid, queue, placements_map, placed_counts,
                   qi, score_phase1, ci, placements_this_pass, score_phase2>>

Next == PlanStart \/ PlaceStep \/ FillStep \/ FillPassEnd \/ Finish


Spec == Init /\ [][Next]_vars

RaggedSpec == RaggedInit /\ [][Next]_vars

FreeSpec == FreeInit /\ [][Next]_vars

\* ------------------------------------------------ two requests at once
\* Two calls of plan_garden, each a thread with its own arguments and locals,
\* interleaved step by step.  The variables hold the call that is running and
\* suspended holds the one that is not; Switch hands the processor over.  The
\* catalogue is the one thing both read.
Local ==
    [candidates |-> candidates, request |-> request, pc |-> pc, grid |-> grid,
     warnings |-> warnings, queue |-> queue, placements_map |-> placements_map,
     placed_counts |-> placed_counts, qi |-> qi, score_phase1 |-> score_phase1, ci |-> ci,
     placements_this_pass |-> placements_this_pass, score_phase2 |-> score_phase2,
     response |-> response]

Entry(c, r) ==
    [candidates |-> c, request |-> r, pc |-> "start", grid |-> GardenGrid_new(0, 0),
     warnings |-> << >>, queue |-> << >>, placements_map |-> EmptyMap,
     placed_counts |-> EmptyMap, qi |-> 1, score_phase1 |-> 0, ci |-> 1,
     placements_this_pass |-> 0, score_phase2 |-> 0, response |-> NoResponse]

PairLayouts ==
    UNION {UNION {LayoutsOn(rows, cols, {}) : cols \in 1 .. MaxPairCols} :
              rows \in 1 .. MaxPairRows}

PairCandidates == {c \in CandidateLists : Len(c) = MaxCands}

PairRequests(c) ==
    [layout : PairLayouts,
     preferences : UNION {[1 .. k -> [id : {c[i] : i \in DOMAIN c}, quantity : Quantities]] :
                             k \in 0 .. MaxPairPrefs}]

PairInit ==
    /\ candidates \in PairCandidates
    /\ request \in PairRequests(candidates)
    /\ pc = "start"
    /\ grid = GardenGrid_new(0, 0)
    /\ warnings = << >>
    /\ queue = << >>
    /\ placements_map = EmptyMap
    /\ placed_counts = EmptyMap
    /\ qi = 1
    /\ score_phase1 = 0
    /\ ci = 1
    /\ placements_this_pass = 0
    /\ score_phase2 = 0
    /\ response = NoResponse
    /\ call = NoCall
    /\ result = NoResult
    /\ suspended \in {Entry(c, r) : c \in PairCandidates, r \in UNION {PairRequests(d) : d \in PairCandidates}}
    /\ \A i \in DOMAIN suspended.request.preferences :
          \E j \in DOMAIN suspended.candidates :
              suspended.request.preferences[i].id = suspended.candidates[j]

\* the hand-over with one grid for both calls: the grid stays where it is
Switch_shared_grid ==
    /\ suspended.pc # "none"
    /\ suspended' = Local
    /\ candidates' = suspended.candidates
    /\ request' = suspended.request
    /\ pc' = suspended.pc
    /\ warnings' = suspended.warnings
    /\ queue' = suspended.queue
    /\ placements_map' = suspended.placements_map
    /\ placed_counts' = suspended.placed_counts
    /\ qi' = suspended.qi
    /\ score_phase1' = suspended.score_phase1
    /\ ci' = suspended.ci
    /\ placements_this_pass' = suspended.placements_this_pass
    /\ score_phase2' = suspended.score_phase2
    /\ response' = suspended.response
    /\ UNCHANGED <<grid, call, result>>

\* the scheduler takes the running call off the processor and resumes the other
Switch ==
    /\ suspended.pc # "none"
    /\ suspended' = Local
    /\ candidates' = suspended.candidates
    /\ request' = suspended.request
    /\ pc' = suspended.pc
    /\ grid' = suspended.grid
    /\ warnings' = suspended.warnings
    /\ queue' = suspended.queue
    /\ placements_map' = suspended.placements_map
    /\ placed_counts' = suspended.placed_counts
    /\ qi' = suspended.qi
    /\ score_phase1' = suspended.score_phase1
    /\ ci' = suspended.ci
    /\ placements_this_pass' = suspended.placements_this_pass
    /\ score_phase2' = suspended.score_phase2
    /\ response' = suspended.response
    /\ UNCHANGED <<call, result>>

PairNext == PlanStart \/ PlaceStep \/ FillStep \/ FillPassEnd \/ Finish \/ Switch

PairSpec == PairInit /\ [][PairNext]_vars

\* ------------------------------------------- the planner as a function
\* The same code read as functions of their arguments: place_candidates and
\* fill_remaining_cells run their loops to the end, plan_garden composes them.
\* order lists the commits as they are made.
NoRun == [grid |-> GardenGrid_new(0, 0), counts |-> EmptyMap, score |-> 0, order |-> << >>]

Committed(st, id, best) ==
    [grid |-> Commit(st.grid, id, best),
     counts |-> MapInsert(st.counts, id, MapGet(st.counts, id, 0) + 1),
     score |-> st.score + best.score,
     order |-> Append(st.order, [id |-> id, row |-> best.r, col |-> best.c])]

RECURSIVE place_candidates_from(_, _, _, _)
place_candidates_from(st, q, pmap, i) ==
    IF i > Len(q)
    THEN st
    ELSE LET id == q[i]
             best == find_best_block(st.grid, id)
         IN  IF MapGet(st.counts, id, 0) >= MapGet(pmap, id, 0)
             THEN place_candidates_from(st, q, pmap, i + 1)
             ELSE IF ~best.found /\ SpanOf(id) = 1
             THEN st
             ELSE IF ~best.found
             THEN place_candidates_from(st, q, pmap, i + 1)
             ELSE place_candidates_from(Committed(st, id, best), q, pmap, i + 1)

place_candidates(g, q, pmap) ==
    place_candidates_from([NoRun EXCEPT !.grid = g, !.counts = seed_placed_counts(g)],
                          q, pmap, 1)

RECURSIVE fill_remaining_from(_, _, _, _)
fill_remaining_from(st, cands, i, this_pass) ==
    IF i > Len(cands)
    THEN IF this_pass = 0 THEN st ELSE fill_remaining_from(st, cands, 1, 0)
    ELSE LET id == cands[i]
             best == find_best_block(st.grid, id)
         IN  IF ~best.found
             THEN fill_remaining_from(st, cands, i + 1, this_pass)
             ELSE fill_remaining_from(Committed(st, id, best), cands, i + 1, this_pass + 1)

fill_remaining_cells(g, cands) ==
    fill_remaining_from([NoRun EXCEPT !.grid = g], cands, 1, 0)

plan_garden(cands, req) ==
    LET v == validate_layout(req.layout)
        init == initialize_grid(v.rows, v.cols, req.layout)
        occ == count_grid_occupancy(init.grid)
        available_cells == Max(v.rows * v.cols - occ.blocked, 0)
        free_cells == Max(available_cells - occ.occupied, 0)
        built == build_placement_queue(cands, req.preferences, free_cells)
        phase1 == place_candidates(init.grid, built.queue, built.placements_map)
        phase2 == fill_remaining_cells(phase1.grid, cands)
        warns == init.warnings \o empty_cells_warning(phase2.grid)
    IN  IF ~v.ok
        THEN [response |-> ErrResponse(v.error), order |-> << >>]
        ELSE IF init.panicked
        THEN [response |-> NoResponse, order |-> << >>]
        ELSE IF occ.occupied >= available_cells
        THEN [response |-> build_response(init.grid, v.rows, v.cols, 0,
                               Append(init.warnings, FullyOccupiedWarning)),
              order |-> << >>]
        ELSE [response |-> build_response(phase2.grid, v.rows, v.cols,
                               phase1.score + phase2.score, warns),
              order |-> phase1.order \o phase2.order]

\* ------------------------------------------------------------ the ranker
\* an Option that is None
None == "none"

\* french_rank with unknown identifiers ranked first
french_rank_unknown_first(id) ==
    CASE id = "tomato" -> 1
      [] id = "carrot" -> 2
      [] OTHER -> 0

\* french_rank, for the identifiers used here: two of the table, and any other
french_rank(id) ==
    CASE id = "tomato" -> 1
      [] id = "carrot" -> 2
      [] OTHER -> 999

\* the filter closure without the test of the region
passes_filter_no_region(v, req) ==
    /\ req.season \in v.seasons
    /\ req.sun # None => req.sun \in v.sun_requirement
    /\ req.soil # None => req.soil \in v.soil_types
    /\ ~(req.level = "Beginner" /\ ~v.beginner_friendly)

\* the closure of the filter in filter_vegetables
passes_filter(v, req) ==
    /\ req.season \in v.seasons
    /\ req.sun # None => req.sun \in v.sun_requirement
    /\ req.soil # None => req.soil \in v.soil_types
    /\ req.region # None => req.region \in v.regions
    /\ ~(req.level = "Beginner" /\ ~v.beginner_friendly)

\* preferences.iter().position(|p| p.id == id): 1-based, 0 for None
RECURSIVE position_from(_, _, _)
position_from(prefs, id, i) ==
    IF i > Len(prefs) THEN 0
    ELSE IF prefs[i].id = id THEN i
    ELSE position_from(prefs, id, i + 1)

position(prefs, id) == position_from(prefs, id, 1)

\* the comparator handed to sort_by
compare(a, b, prefs) ==
    LET a_pos == position(prefs, a.id)
        b_pos == position(prefs, b.id)
        cmp(x, y) == IF x < y THEN "Less" ELSE IF x > y THEN "Greater" ELSE "Equal"
    IN  IF a_pos # 0 /\ b_pos # 0 THEN cmp(a_pos, b_pos)
        ELSE IF a_pos # 0 THEN "Less"
        ELSE IF b_pos # 0 THEN "Greater"
        ELSE cmp(french_rank(a.id), french_rank(b.id))

\* sort_by is a stable sort: x goes before the first element it is Less than
RECURSIVE insert_sorted(_, _, _, _)
insert_sorted(sorted, x, prefs, i) ==
    IF i > Len(sorted) THEN Append(sorted, x)
    ELSE IF compare(x, sorted[i], prefs) = "Less"
    THEN SubSeq(sorted, 1, i - 1) \o <<x>> \o SubSeq(sorted, i, Len(sorted))
    ELSE insert_sorted(sorted, x, prefs, i + 1)

RECURSIVE sort_by_from(_, _, _, _)
sort_by_from(items, prefs, i, sorted) ==
    IF i > Len(items) THEN sorted
    ELSE sort_by_from(items, prefs, i + 1, insert_sorted(sorted, items[i], prefs, 1))

filter_vegetables(db, req) ==
    LET filtered == SelectSeq(db, LAMBDA v : passes_filter(v, req))
    IN  sort_by_from(filtered, req.preferences, 1, << >>)

\* ------------------------------------------- direct calls of pure functions
\* varieties with any companion lists over the identifiers of the catalogue
AnyVegetables ==
    [id : VegIds, spacing_cm : {CELL_SIZE_CM}, good_companions : SUBSET VegIds,
     bad_companions : SUBSET VegIds, beginner_friendly : {TRUE}]

NeighborLists == UNION {[1 .. k -> VegIds] : k \in 0 .. MaxNeighbors}

ScoreCalls ==
    [fn : {"companion_score"},
     vegetable : {v \in AnyVegetables : v.id = "a"}, neighbor_ids : NeighborLists]

CompatibleCalls ==
    [fn : {"is_compatible"},
     a : {v \in AnyVegetables : v.good_companions = {}},
     b : {v \in AnyVegetables : v.good_companions = {}}]

\* catalogue entries for the ranker: two identifiers of the rank table, two others
RankIds == {"tomato", "carrot", "kale", "okra"}

RankEntry(id, seasons, sun, soil, regions, beginner) ==
    [id |-> id, seasons |-> seasons, sun_requirement |-> sun, soil_types |-> soil,
     regions |-> regions, beginner_friendly |-> beginner]

\* two entries with every combination of attributes, asked for with every
\* combination of optional constraints
FilterDbs ==
    LET entries(id) ==
            {RankEntry(id, se, su, so, re, be) :
                se \in {{"Summer"}, {"Winter"}}, su \in {{}, {"FullSun"}},
                so \in {{}, {"Clay"}}, re \in {{}, {"Oceanic"}}, be \in BOOLEAN}
    IN  {<<x, y>> : x \in entries("tomato"), y \in entries("carrot")}

FilterRequests ==
    [season : {"Summer"}, sun : {None, "FullSun"}, soil : {None, "Clay"},
     region : {None, "Oceanic"}, level : {None, "Beginner", "Expert"}, preferences : {<< >>}]

\* up to four entries in any catalogue order that differ in beginner suitability
\* only, asked for with any short preference list
SortDbs ==
    UNION {{[i \in DOMAIN ids |->
                RankEntry(ids[i], {"Summer"}, {"FullSun"}, {"Clay"}, {"Oceanic"}, i \notin hard)] :
              hard \in SUBSET DOMAIN ids} :
          ids \in InjectiveSeqs(RankIds, Cardinality(RankIds))}

SortRequests ==
    [season : {"Summer"}, sun : {None}, soil : {None}, region : {None},
     level : {None, "Beginner"},
     preferences : UNION {[1 .. k -> [id : RankIds, quantity : {NoQuantity}]] :
                             k \in 0 .. MaxRankPrefs}]

FilterCalls ==
    [fn : {"filter_vegetables"}, db : FilterDbs, request : FilterRequests]
        \cup [fn : {"filter_vegetables"}, db : SortDbs, request : SortRequests]

Spacings == (0 .. MaxSpacing) \cup {2147483647 - k : k \in 0 .. MaxSpacing}

SpacingCalls == [fn : {"cell_span", "plants_per_cell"}, spacing_cm : Spacings]

PureCalls == ScoreCalls \cup CompatibleCalls \cup FilterCalls \cup SpacingCalls

PureInit ==
    /\ call \in PureCalls
    /\ suspended = NoSuspended
    /\ result = NoResult
    /\ pc = "call"
    /\ candidates = << >>
    /\ request = [layout |-> << >>, preferences |-> << >>]
    /\ grid = GardenGrid_new(0, 0)
    /\ warnings = << >>
    /\ queue = << >>
    /\ placements_map = EmptyMap
    /\ placed_counts = EmptyMap
    /\ qi = 1
    /\ score_phase1 = 0
    /\ ci = 1
    /\ placements_this_pass = 0
    /\ score_phase2 = 0
    /\ response = NoResponse

PlannerIdle ==
    UNCHANGED <<candidates, request, grid, warnings, queue, placements_map, placed_counts,
                qi, score_phase1, ci, placements_this_pass, score_phase2, response, call,
                suspended>>

CallCompanionScore ==
    /\ pc = "call" /\ call.fn = "companion_score"
    /\ result' = [kind |-> "i32", value |-> companion_score(call.vegetable, call.neighbor_ids)]
    /\ pc' = "returned"
    /\ PlannerIdle

CallIsCompatible ==
    /\ pc = "call" /\ call.fn = "is_compatible"
    /\ result' = [kind |-> "bool", value |-> is_compatible(call.a, call.b)]
    /\ pc' = "returned"
    /\ PlannerIdle

CallFilterVegetables ==
    /\ pc = "call" /\ call.fn = "filter_vegetables"
    /\ result' = [kind |-> "Vec<Vegetable>",
                  value |-> filter_vegetables(call.db, call.request)]
    /\ pc' = "returned"
    /\ PlannerIdle

CallCellSpan ==
    /\ pc = "call" /\ call.fn = "cell_span"
    /\ result' = [kind |-> "u32", value |-> cell_span(call.spacing_cm)]
    /\ pc' = "returned"
    /\ PlannerIdle

CallPlantsPerCell ==
    /\ pc = "call" /\ call.fn = "plants_per_cell"
    /\ result' = [kind |-> "u32", value |-> plants_per_cell(call.spacing_cm)]
    /\ pc' = "returned"
    /\ PlannerIdle

PureNext ==
    \/ CallCompanionScore
    \/ CallIsCompatible
    \/ CallFilterVegetables
    \/ CallCellSpan
    \/ CallPlantsPerCell

PureSpec == PureInit /\ [][PureNext]_vars

\* ------------------------------------------------------------ claims
\* the grid exists: the layout was accepted and initialize_grid has run
GridReady == pc \in {"phase1", "phase2", "finish"} \/ (pc = "done" /\ response.status = "Ok")

LayoutAt(p) == request.layout[p[1] + 1][p[2] + 1]

\* a cell written by fill_block (a commit of phase 1 or phase 2)
IsCommitted(v) == IsSome(v) /\ v.reason.kind # "existing"
CommittedCells == {p \in DOMAIN grid.cells : IsCommitted(grid.cells[p].vegetable)}

\* C1: in every state of a planning run no blocked cell holds a placement, and
\* in the response a cell is Blocked exactly when the layout marked it blocked
C1_BlockedNeverPlanted ==
    /\ GridReady =>
          \A p \in DOMAIN grid.cells :
              grid.cells[p].blocked => ~IsSome(grid.cells[p].vegetable)
    /\ response.status = "Ok" =>
          \A p \in DOMAIN response.grid :
              (response.grid[p].type = "Blocked") <=> (LayoutAt(p) = Blocked(TRUE))

\* a finished run whose layout has a blocked cell and in which a commit was made
C1_Witness ==
    /\ pc = "done" /\ response.status = "Ok"
    /\ \E p \in DOMAIN grid.cells : grid.cells[p].blocked
    /\ CommittedCells # {}

\* C2: every placement's span x span block lies inside the grid, every cell of
\* the block holds a placement of the same variety, anchor and span, and the
\* blocks of two different placements share no cell
SameBlock(v, w) ==
    /\ v.id = w.id /\ v.span = w.span
    /\ v.anchor_row = w.anchor_row /\ v.anchor_col = w.anchor_col

BlockOf(v) == BlockCells(v.anchor_row, v.anchor_col, v.span)

C2_BlocksWellFormed ==
    GridReady =>
        \A p \in OccupiedCells(grid) :
            LET v == grid.cells[p].vegetable
            IN  /\ v.span >= 1
                /\ p \in BlockOf(v)
                /\ BlockOf(v) \subseteq DOMAIN grid.cells
                /\ \A q \in BlockOf(v) :
                       IsSome(grid.cells[q].vegetable) /\ SameBlock(grid.cells[q].vegetable, v)
                /\ \A q \in OccupiedCells(grid) :
                       ~SameBlock(grid.cells[q].vegetable, v)
                           => BlockOf(grid.cells[q].vegetable) \cap BlockOf(v) = {}

\* a grid holding a pre-planted cell and a committed multi-cell block
C2_Witness ==
    /\ GridReady
    /\ \E p \in OccupiedCells(grid) : ~IsCommitted(grid.cells[p].vegetable)
    /\ \E p \in CommittedCells : grid.cells[p].vegetable.span > 1

\* C3: a layout cell pre-planted with an identifier the catalogue resolves
\* holds that identifier at the same coordinate in the final response
ResolvedPrePlanted ==
    {p \in DOMAIN grid.cells :
        LayoutAt(p).kind = "Planted" /\ get_vegetable_by_id_found(LayoutAt(p).id)}

C3_PrePlantedPreserved ==
    response.status = "Ok" =>
        \A p \in ResolvedPrePlanted :
            /\ response.grid[p].id = LayoutAt(p).id
            /\ response.grid[p].type \in {"SelfContained", "Overflowing"}

\* a finished run with a pre-planted cell in which both phases committed
C3_Witness ==
    /\ pc = "done" /\ response.status = "Ok"
    /\ ResolvedPrePlanted # {}
    /\ Len(queue) > 0 /\ qi > 1
    /\ \E id \in DOMAIN placed_counts :
           placed_counts[id] > MapGet(seed_placed_counts(
               initialize_grid(grid.rows, grid.cols, request.layout).grid), id, 0)
    /\ Cardinality(CommittedCells) > Len(queue)

\* C4: the best-block scan returns a free block of maximal companion score, the
\* first such block in row-major order, and no block exactly when none is free
FreeBlocks(g, id) ==
    {p \in DOMAIN g.cells : is_block_free(g, p[1], p[2], SpanOf(id))}

RowMajorBefore(p, q) == p[1] < q[1] \/ (p[1] = q[1] /\ p[2] <= q[2])

C4_BestBlock ==
    GridReady =>
        \A id \in VegIds :
            LET best == find_best_block(grid, id)
                free == FreeBlocks(grid, id)
            IN  /\ best.found <=> free # {}
                /\ best.found =>
                      /\ <<best.r, best.c>> \in free
                      /\ best.score = BlockScore(grid, id, best.r, best.c)
                      /\ \A q \in free : BlockScore(grid, id, q[1], q[2]) <= best.score
                      /\ \A q \in free :
                             BlockScore(grid, id, q[1], q[2]) = best.score
                                 => RowMajorBefore(<<best.r, best.c>>, q)

\* after a commit, a variety has two free blocks tied at the maximal score, one of
\* lower score before them in scan order, and the scan returns the first of the tie
C4_Witness ==
    /\ GridReady /\ CommittedCells # {}
    /\ \E id \in VegIds :
          LET best == find_best_block(grid, id)
              free == FreeBlocks(grid, id)
          IN  /\ best.found
              /\ \E q \in free : q # <<best.r, best.c>>
                                 /\ BlockScore(grid, id, q[1], q[2]) = best.score
              /\ \E q \in free : BlockScore(grid, id, q[1], q[2]) < best.score
                                 /\ RowMajorBefore(q, <<best.r, best.c>>)

\* C5: phase 2 stops only after a complete sweep over the candidate list that
\* commits nothing; once it has stopped no candidate has a free block anywhere
FullyOccupied == \E k \in DOMAIN warnings : warnings[k].kind = "fully_occupied"
Phase2Over == pc = "finish" \/ (pc = "done" /\ response.status = "Ok" /\ ~FullyOccupied)

C5_FillFixedPoint ==
    Phase2Over =>
        /\ ci = Len(candidates) + 1
        /\ placements_this_pass = 0
        /\ \A i \in DOMAIN candidates : ~find_best_block(grid, candidates[i]).found
        /\ \A i \in DOMAIN candidates : FreeBlocks(grid, candidates[i]) = {}

\* phase 2 is over after sweeps in which the first candidate (span 2) never fitted
\* and the second one was committed
C5_Witness ==
    /\ Phase2Over /\ Len(queue) = 0
    /\ Len(candidates) = 2 /\ SpanOf(candidates[1]) = 2
    /\ \E p \in CommittedCells : grid.cells[p].vegetable.id = candidates[2]
    /\ \A p \in OccupiedCells(grid) : grid.cells[p].vegetable.id # candidates[1]

\* C6: a planning run terminates: phase 1 handles each queue entry at most once,
\* every commit strictly reduces the number of free cells, and so every step of
\* the run strictly decreases a natural-number measure (Rank) and leads to a
\* state that is done or has a next step
FreeCount == Cardinality(FreeCells(grid))

Phase2Rank(free, i, commits) ==
    (free + (IF commits > 0 THEN 1 ELSE 0)) * (Len(candidates) + 2)
        + (Len(candidates) + 1 - i) + 2

Rank ==
    CASE pc = "done" -> 0
      [] pc = "finish" -> 1
      [] pc = "phase2" -> Phase2Rank(FreeCount, ci, placements_this_pass)
      [] pc = "phase1" -> (Len(queue) + 1 - qi) + Phase2Rank(FreeCount + 1, 1, 0)
      [] pc = "start" ->
            LET cells == IF Len(request.layout) = 0 THEN 0
                         ELSE Len(request.layout) * Len(request.layout[1])
            IN  Len(request.preferences) * Max(cells, 1) + 1
                    + Phase2Rank(cells + 1, 1, 0)

\* the guard of some action holds
CanStep ==
    \/ pc = "start"
    \/ pc = "phase1" /\ qi <= Len(queue)
    \/ pc = "phase2"
    \/ pc = "finish"

C6_Terminates ==
    [][/\ Rank' < Rank
       /\ Rank' >= 0
       /\ pc' # "done" => CanStep'
       /\ pc = "phase1" => (qi' = qi + 1 \/ (qi' = qi /\ pc' = "phase2"))
       /\ (GridReady /\ grid' # grid) => Cardinality(FreeCells(grid')) < FreeCount]_vars

\* a finished run that handled a queue of two entries and committed in phase 2
C6_Witness ==
    /\ pc = "done" /\ response.status = "Ok"
    /\ Len(queue) >= 2 /\ qi = Len(queue) + 1
    /\ Cardinality(CommittedCells) > Len(queue)

\* the cells initialize_grid leaves free, read off the layout
LayoutFree ==
    {p \in Positions(Len(request.layout), Len(request.layout[1])) :
        \/ LayoutAt(p).kind = "Free"
        \/ LayoutAt(p) = Blocked(FALSE)
        \/ (LayoutAt(p).kind = "Planted" /\ ~get_vegetable_by_id_found(LayoutAt(p).id))}

EmptyInResponse == {p \in DOMAIN response.grid : response.grid[p].type = "Empty"}
HasEmptyCellsWarning ==
    \E k \in DOMAIN response.warnings : response.warnings[k].kind = "empty_cells"

\* C7: with a span-1 candidate and a free cell in the initial grid, the final grid
\* has no Empty cell and the response carries no residual-empty-cell warning
C7_FullWithSpanOne ==
    (/\ response.status = "Ok"
     /\ \E i \in DOMAIN candidates : SpanOf(candidates[i]) = 1
     /\ LayoutFree # {})
        => EmptyInResponse = {} /\ ~HasEmptyCellsWarning

\* a finished run on a one-row grid with a quantity asked of the span-2 variety,
\* which fits nowhere, and a span-1 candidate
C7_Witness ==
    /\ pc = "done" /\ response.status = "Ok"
    /\ grid.rows = 1 /\ LayoutFree # {}
    /\ \E i \in DOMAIN candidates : SpanOf(candidates[i]) = 1
    /\ \E k \in DOMAIN request.preferences :
           /\ SpanOf(request.preferences[k].id) = 2
           /\ request.preferences[k].quantity >= 1
           /\ FindCandidate(candidates, request.preferences[k].id) # 0
    /\ Len(queue) > 0

\* C8 as stated: whenever the free cells at the start are an exact multiple of
\* span^2 for some candidate whose span fits in the grid, no cell stays empty
FitsInGrid(id) == SpanOf(id) <= grid.rows /\ SpanOf(id) <= grid.cols

C8_Original ==
    (/\ response.status = "Ok"
     /\ \E i \in DOMAIN candidates :
            /\ FitsInGrid(candidates[i])
            /\ Cardinality(LayoutFree) % (SpanOf(candidates[i]) * SpanOf(candidates[i])) = 0)
        => EmptyInResponse = {}

\* C8 (amended): no cell stays empty whenever some candidate has span 1 (its
\* block size divides every count); cells stay empty only when every candidate
\* has a larger span and none of them has a free block left
C8_EmptyOnlyWithoutFit ==
    response.status = "Ok" =>
        /\ (\E i \in DOMAIN candidates :
                /\ SpanOf(candidates[i]) = 1
                /\ Cardinality(LayoutFree) % (SpanOf(candidates[i]) * SpanOf(candidates[i])) = 0)
              => EmptyInResponse = {}
        /\ EmptyInResponse # {} =>
              \A i \in DOMAIN candidates :
                  /\ SpanOf(candidates[i]) > 1
                  /\ FreeBlocks(grid, candidates[i]) = {}

\* a finished run with four free cells at the start, the span-2 variety as a
\* candidate that fits in the grid, and empty cells left
C8_Witness ==
    /\ pc = "done" /\ response.status = "Ok"
    /\ Cardinality(LayoutFree) = 4
    /\ \E i \in DOMAIN candidates : SpanOf(candidates[i]) = 2 /\ FitsInGrid(candidates[i])
    /\ EmptyInResponse # {}

\* C9 as stated: an explicit quantity N of a candidate on a grid large enough to
\* hold N plants of it yields at least N anchor cells of that identifier
LayoutBlockFree(p, span) == BlockCells(p[1], p[2], span) \subseteq LayoutFree

CanHold(id, n) ==
    IF SpanOf(id) = 1
    THEN Cardinality(LayoutFree) >= n
    ELSE \E S \in SUBSET {p \in LayoutFree : LayoutBlockFree(p, SpanOf(id))} :
            /\ Cardinality(S) = n
            /\ \A p \in S : \A q \in S :
                   p # q => BlockCells(p[1], p[2], SpanOf(id))
                                \cap BlockCells(q[1], q[2], SpanOf(id)) = {}

AnchorsOf(id) == {p \in DOMAIN response.grid : response.grid[p].id = id}

C9_Original ==
    response.status = "Ok" =>
        \A k \in DOMAIN request.preferences :
            LET pref == request.preferences[k]
            IN  (/\ HasQuantity(pref)
                 /\ FindCandidate(candidates, pref.id) # 0
                 /\ CanHold(pref.id, pref.quantity))
                    => Cardinality(AnchorsOf(pref.id)) >= pref.quantity

\* C9 (amended): the guarantee holds for a span-1 variety when no identifier is
\* repeated in the preference list and the cells asked for by the candidate
\* entries before it (quantity x span^2) leave at least N of the free cells
RECURSIVE NeededBefore(_)
NeededBefore(k) ==
    IF k <= 1 THEN 0
    ELSE LET pref == request.preferences[k - 1]
         IN  (IF HasQuantity(pref) /\ FindCandidate(candidates, pref.id) # 0
              THEN pref.quantity * SpanOf(pref.id) * SpanOf(pref.id) ELSE 0)
             + NeededBefore(k - 1)

NoRepeatedPreference ==
    \A j \in DOMAIN request.preferences : \A k \in DOMAIN request.preferences :
        j # k => request.preferences[j].id # request.preferences[k].id

QuantityHonoured(k) ==
    LET pref == request.preferences[k]
    IN  /\ HasQuantity(pref)
        /\ FindCandidate(candidates, pref.id) # 0
        /\ SpanOf(pref.id) = 1
        /\ NoRepeatedPreference
        /\ NeededBefore(k) + pref.quantity <= Cardinality(LayoutFree)

C9_QuantityOfSpanOne ==
    response.status = "Ok" =>
        \A k \in DOMAIN request.preferences :
            QuantityHonoured(k) =>
                Cardinality(AnchorsOf(request.preferences[k].id))
                    >= request.preferences[k].quantity

\* a finished run where the second of two entries asked for two plants of a span-1
\* variety, the other candidate is ranked first, and exactly two were placed
C9_Witness ==
    /\ pc = "done" /\ response.status = "Ok"
    /\ Len(request.preferences) = 2 /\ Len(candidates) = 2
    /\ QuantityHonoured(2) /\ request.preferences[2].quantity = 2
    /\ HasQuantity(request.preferences[1]) /\ request.preferences[1].quantity > 0
    /\ Cardinality(AnchorsOf(request.preferences[2].id)) = 2

\* C10 as stated: with exactly two mutually detrimental candidates on a grid that
\* offers non-adjacent positions, the final grid has no axis-adjacent pair of
\* cells holding one variety each (read in the sense most favourable to the
\* claim: the layout is entirely free, so the two varieties are alone)
MutuallyDetrimental(x, y) ==
    y \in Vegetable(x).bad_companions /\ x \in Vegetable(y).bad_companions

TwoDetrimental ==
    Len(candidates) = 2 /\ MutuallyDetrimental(candidates[1], candidates[2])

Adjacent(p, q) ==
    \/ p[1] = q[1] /\ (p[2] = q[2] + 1 \/ q[2] = p[2] + 1)
    \/ p[2] = q[2] /\ (p[1] = q[1] + 1 \/ q[1] = p[1] + 1)

HoldsId(g, p, id) == g.cells[p].vegetable.id = id

AdjacentPair(g, x, y) ==
    \E p \in DOMAIN g.cells : \E q \in DOMAIN g.cells :
        Adjacent(p, q) /\ HoldsId(g, p, x) /\ HoldsId(g, q, y)

\* the layout has room for one block of each variety, not adjacent to each other
OffersNonAdjacent(x, y) ==
    \E p \in LayoutFree : \E q \in LayoutFree :
        LET P == BlockCells(p[1], p[2], SpanOf(x))
            Q == BlockCells(q[1], q[2], SpanOf(y))
        IN  /\ P \subseteq LayoutFree /\ Q \subseteq LayoutFree /\ P \cap Q = {}
            /\ \A u \in P : \A w \in Q : ~Adjacent(u, w)

PlacedAlone ==
    LET pair == {candidates[1], candidates[2]}
    IN  /\ \A p \in ResolvedPrePlanted : LayoutAt(p).id \in pair
        /\ \A x \in pair : /\ Vegetable(x).good_companions \cap pair = {}
                           /\ x \notin Vegetable(x).bad_companions

\* some cell of the block at (r, c) is axis-adjacent to a cell outside it that holds id
Touches(g, r, c, span, id) ==
    \E u \in BlockCells(r, c, span) : \E w \in DOMAIN g.cells :
        w \notin BlockCells(r, c, span) /\ Adjacent(u, w) /\ HoldsId(g, w, id)

Rejected == Len(request.layout) = 0 \/ Len(request.layout[1]) = 0

C11_InvalidLayoutRejected ==
    Rejected =>
        /\ pc \in {"start", "done"}
        /\ grid = GardenGrid_new(0, 0)
        /\ queue = << >> /\ warnings = << >> /\ placed_counts = EmptyMap
        /\ qi = 1 /\ ci = 1 /\ score_phase1 = 0 /\ score_phase2 = 0
        /\ pc = "start" => response = NoResponse
        /\ pc = "done" =>
              response = ErrResponse(IF Len(request.layout) = 0 THEN "no_rows" ELSE "empty_row")

\* a rejected call whose layout has an empty first row above a non-empty one, with
\* candidates and a preference
C11_Witness ==
    /\ pc = "done" /\ response.status = "Err" /\ response.grid = << >>
    /\ Len(request.layout) = 2
    /\ Len(request.layout[1]) = 0 /\ Len(request.layout[2]) > 0
    /\ Len(candidates) > 0 /\ Len(request.preferences) > 0

\* C12 as stated: every layout with at least one row and a non-empty first row,
\* whatever the lengths of its later rows, gets a successful response and the call
\* never aborts; only the two rejected layouts get no response
C12_Original ==
    /\ pc # "panic"
    /\ (pc = "done" /\ ~Rejected) => response.status = "Ok"
    /\ response.status = "Err" => Rejected

\* C13: when the initialised grid has no free cell, neither phase commits a
\* placement, the response grid is the classification of the initialised grid,
\* the score is 0 and the warnings contain the fully-occupied warning
ExistingCell(id) ==
    [NoCell EXCEPT !.type = "SelfContained", !.id = id,
                   !.reason = [kind |-> "existing", neighbors |-> << >>],
                   !.plants_per_cell = plants_per_cell(Vegetable(id).spacing_cm)]

C13_FullyOccupiedShortCircuit ==
    (~Rejected /\ LayoutFree = {}) =>
        /\ pc \in {"start", "done"}
        /\ CommittedCells = {}
        /\ queue = << >> /\ qi = 1 /\ ci = 1 /\ placements_this_pass = 0
        /\ pc = "done" =>
              /\ response.status = "Ok"
              /\ response.score = 0
              /\ Len(response.warnings) > 0
              /\ \E k \in DOMAIN response.warnings : response.warnings[k] = FullyOccupiedWarning
              /\ DOMAIN response.grid = Positions(Len(request.layout), Len(request.layout[1]))
              /\ \A p \in DOMAIN response.grid :
                     response.grid[p] = IF LayoutAt(p) = Blocked(TRUE)
                                        THEN [NoCell EXCEPT !.type = "Blocked"]
                                        ELSE ExistingCell(LayoutAt(p).id)

\* a finished run on a layout of one blocked and one pre-planted cell, with candidates
C13_Witness ==
    /\ pc = "done" /\ ~Rejected /\ LayoutFree = {}
    /\ \E p \in DOMAIN grid.cells : grid.cells[p].blocked
    /\ OccupiedCells(grid) # {}
    /\ Len(candidates) > 0

\* C14: the explicit allocation handles the preference entries in input order: an
\* entry with a quantity q whose variety is a candidate reserves
\* min(q x span^2, remaining) cells and lowers remaining by that amount, starting
\* from the free-cell count; any other entry reserves nothing and leaves remaining
\* alone; the reservations sum to at most the free-cell count.  (remaining before
\* entry k is the free-cell count less the cells asked for before k, or 0.)
Eligible(k) ==
    HasQuantity(request.preferences[k])
        /\ FindCandidate(candidates, request.preferences[k].id) # 0

Need(k) ==
    IF Eligible(k)
    THEN request.preferences[k].quantity
            * SpanOf(request.preferences[k].id) * SpanOf(request.preferences[k].id)
    ELSE 0

Reserved(k, available) == Min(Need(k), Max(available - NeededBefore(k), 0))

RECURSIVE SumReserved(_, _)
SumReserved(k, available) ==
    IF k = 0 THEN 0 ELSE Reserved(k, available) + SumReserved(k - 1, available)

\* the last eligible entry naming id: the one whose reservation the map keeps
LastEntry(id) ==
    CHOOSE k \in DOMAIN request.preferences :
        /\ Eligible(k) /\ request.preferences[k].id = id
        /\ \A j \in DOMAIN request.preferences :
               (Eligible(j) /\ request.preferences[j].id = id) => j <= k

C14_ExplicitAllocation ==
    /\ \A available \in 0 .. MaxRows * MaxCols :
          LET alloc == compute_explicit_allocation(candidates, request.preferences, available)
          IN  /\ DOMAIN alloc =
                    {request.preferences[k].id :
                        k \in {j \in DOMAIN request.preferences : Eligible(j)}}
              /\ \A id \in DOMAIN alloc : alloc[id] = Reserved(LastEntry(id), available)
              /\ SumReserved(Len(request.preferences), available) <= available
    /\ pc \in {"phase1", "phase2", "finish"} =>
          LET alloc == compute_explicit_allocation(candidates, request.preferences,
                                                   Cardinality(LayoutFree))
          IN  /\ DOMAIN placements_map = DOMAIN alloc
              /\ \A id \in DOMAIN alloc : (placements_map[id] = 0) <=> (alloc[id] = 0)

\* phase 1 is running on a queue built from two entries of different candidates
\* with quantities, the second of which got fewer cells than it asked for
C14_Witness ==
    /\ pc = "phase1" /\ qi > 1
    /\ Len(request.preferences) = 2 /\ Eligible(1) /\ Eligible(2)
    /\ request.preferences[1].id # request.preferences[2].id
    /\ Reserved(2, Cardinality(LayoutFree)) > 0
    /\ Reserved(2, Cardinality(LayoutFree)) < Need(2)
    /\ Reserved(1, Cardinality(LayoutFree)) = Need(1)

\* C15: a reservation of c cells for a variety of span s gives the placement count
\* max(1, floor(c / s^2)) when c > 0 and 0 when c = 0: a non-zero reservation
\* smaller than one block still counts one placement
IsPlacementCount(n, c, s) ==
    /\ c = 0 => n = 0
    /\ (c > 0 /\ c < s * s) => n = 1
    /\ c >= s * s => (n * s * s <= c /\ c < (n + 1) * s * s)

C15_PlacementCount ==
    /\ \A id \in VegIds : \A c \in 0 .. MaxRows * MaxCols :
          IsPlacementCount(placement_count(id, c), c, SpanOf(id))
    /\ pc \in {"phase1", "phase2", "finish"} =>
          \A id \in DOMAIN placements_map :
              IsPlacementCount(placements_map[id],
                               Reserved(LastEntry(id), Cardinality(LayoutFree)), SpanOf(id))

\* phase 1 is running with a variety of span 2 that reserved fewer than four
\* cells and counts one placement
C15_Witness ==
    /\ pc = "phase1"
    /\ \E id \in DOMAIN placements_map :
           /\ SpanOf(id) = 2
           /\ Reserved(LastEntry(id), Cardinality(LayoutFree)) \in 1 .. 3
           /\ placements_map[id] = 1
           /\ queue[qi] = id

\* C16 as stated: for every preference list, repeated identifiers included, the
\* placement queue holds each reserved variety exactly as many times as its
\* placement count, holds no variety without a reservation, and orders the
\* varieties by their position in the preference list
CountIn(q, id) == Cardinality({i \in DOMAIN q : q[i] = id})

FirstPreference(id) ==
    CHOOSE k \in DOMAIN request.preferences :
        /\ request.preferences[k].id = id
        /\ \A j \in DOMAIN request.preferences : request.preferences[j].id = id => k <= j

C16_Original ==
    pc \in {"phase1", "phase2", "finish"} =>
        /\ \A id \in VegIds : CountIn(queue, id) = MapGet(placements_map, id, 0)
        /\ \A i \in DOMAIN queue : \E k \in DOMAIN request.preferences :
               request.preferences[k].id = queue[i]
        /\ \A i \in DOMAIN queue : \A j \in DOMAIN queue :
               i < j => FirstPreference(queue[i]) <= FirstPreference(queue[j])

\* C17: phase 1 commits a queue entry only while the running count of its variety
\* (cells pre-planted with the identifier plus the phase-1 commits of it so far)
\* is strictly below the variety's placement count; so the phase-1 commits of a
\* variety never exceed its placement count less its pre-planted cells
PrePlantedOf(id) == Cardinality({p \in ResolvedPrePlanted : LayoutAt(p).id = id})

CommittedAnchors(g, id) ==
    {p \in DOMAIN g.cells :
        LET v == g.cells[p].vegetable
        IN  IsCommitted(v) /\ v.id = id /\ v.anchor_row = p[1] /\ v.anchor_col = p[2]}

C17_Phase1Cap ==
    [][pc = "phase1" =>
          /\ grid' # grid =>
                PrePlantedOf(queue[qi]) + Cardinality(CommittedAnchors(grid, queue[qi]))
                    < MapGet(placements_map, queue[qi], 0)
          /\ \A id \in VegIds :
                /\ Cardinality(CommittedAnchors(grid', id))
                       <= Max(MapGet(placements_map, id, 0) - PrePlantedOf(id), 0)
                /\ MapGet(placed_counts', id, 0)
                       = PrePlantedOf(id) + Cardinality(CommittedAnchors(grid', id))]_vars

\* phase 1 is over: a variety with a pre-planted cell and a placement count of two
\* was queued twice and committed once
C17_Witness ==
    /\ pc = "phase2" /\ ci = 1 /\ score_phase2 = 0 /\ qi = Len(queue) + 1
    /\ \E id \in DOMAIN placements_map :
           /\ PrePlantedOf(id) = 1
           /\ placements_map[id] = 2 /\ CountIn(queue, id) = 2
           /\ Cardinality(CommittedAnchors(grid, id)) = 1
           /\ Cardinality(CommittedCells) = 1

\* C18: in phase 1 a queue entry of span 1 (below its cap) that finds no free
\* block ends phase 1: nothing is committed, no error or warning is raised, and no
\* later entry is handled; an entry of span greater than 1 that finds no free
\* block is skipped alone and the next entry is attempted
C18_BreakOrSkip ==
    [][/\ pc = "phase1" =>
             LET id == queue[qi]
                 under == MapGet(placed_counts, id, 0) < MapGet(placements_map, id, 0)
                 none == FreeBlocks(grid, id) = {}
             IN  /\ (under /\ none /\ SpanOf(id) = 1) =>
                        /\ pc' = "phase2"
                        /\ grid' = grid /\ placed_counts' = placed_counts
                        /\ warnings' = warnings /\ response' = response
                 /\ (under /\ none /\ SpanOf(id) > 1) =>
                        /\ grid' = grid /\ placed_counts' = placed_counts
                        /\ qi' = qi + 1
                        /\ qi < Len(queue) => pc' = "phase1"
       /\ pc \notin {"start", "phase1"} => (pc' # "phase1" /\ qi' = qi)]_vars

\* phase 1 has just stopped at an entry of span 1 on a full grid, leaving later
\* queue entries unhandled
C18_Witness ==
    /\ pc = "phase2" /\ ci = 1 /\ score_phase2 = 0
    /\ qi < Len(queue)
    /\ SpanOf(queue[qi]) = 1
    /\ MapGet(placed_counts, queue[qi], 0) < MapGet(placements_map, queue[qi], 0)
    /\ FreeCells(grid) = {}

\* C19 as stated: for every free block the planner scores, the neighbour lookup
\* returns each distinct placement touching the block's perimeter exactly once,
\* also when the placement covers several perimeter cells
TouchingPlacements(g, r, c, span) ==
    {g.cells[w].vegetable : w \in {x \in OccupiedCells(g) :
        x \notin BlockCells(r, c, span)
            /\ \E u \in BlockCells(r, c, span) : Adjacent(u, x)}}

C19_Original ==
    GridReady =>
        \A id \in VegIds : \A q \in FreeBlocks(grid, id) :
            LET n == get_block_neighbors(grid, q[1], q[2], SpanOf(id))
            IN  /\ \A v \in TouchingPlacements(grid, q[1], q[2], SpanOf(id)) :
                       Cardinality({i \in DOMAIN n : n[i] = v}) = 1
                /\ \A i \in DOMAIN n : n[i] \in TouchingPlacements(grid, q[1], q[2], SpanOf(id))

\* C20: the neighbour lookup of a block examines exactly the in-bounds cells that
\* share an edge with the block: it returns one entry per occupied such cell,
\* nothing from outside the grid and nothing from the diagonal corners; for span 1
\* it returns what get_neighbors returns (up, down, left, right)
EdgeCells(g, r, c, span) ==
    {x \in DOMAIN g.cells :
        x \notin BlockCells(r, c, span) /\ \E u \in BlockCells(r, c, span) : Adjacent(u, x)}

Spans == {SpanOf(id) : id \in VegIds}

C20_Perimeter ==
    GridReady =>
        \A p \in DOMAIN grid.cells : \A span \in Spans :
            BlockCells(p[1], p[2], span) \subseteq DOMAIN grid.cells =>
                LET n == get_block_neighbors(grid, p[1], p[2], span)
                    edge == EdgeCells(grid, p[1], p[2], span) \cap OccupiedCells(grid)
                IN  /\ Len(n) = Cardinality(edge)
                    /\ Cardinality(EdgeCells(grid, p[1], p[2], span)) <= 4 * span
                    /\ {n[i] : i \in DOMAIN n} = {grid.cells[x].vegetable : x \in edge}
                    /\ span = 1 => n = get_neighbors(grid, p[1], p[2])

\* a span-1 block in a corner of the grid with an occupied cell beside it, which
\* the lookup returns, and an occupied diagonal cell, which it does not
C20_Witness ==
    /\ GridReady /\ CommittedCells # {}
    /\ \E p \in DOMAIN grid.cells :
           LET n == get_block_neighbors(grid, p[1], p[2], 1)
           IN  /\ p = <<0, 0>>
               /\ Len(n) = 1
               /\ \E x \in OccupiedCells(grid) :
                      /\ x[1] = p[1] + 1 /\ x[2] = p[2] + 1
                      /\ \A i \in DOMAIN n : n[i] # grid.cells[x].vegetable

\* C21: is_block_free(row, col, span) is false when row + span exceeds the row
\* count or col + span exceeds the column count, false when a cell of the square
\* holds a placement or is blocked, and true otherwise; it is evaluated here for
\* corners on and beyond the last row and column, where a read outside the grid
\* would stop the evaluation
C21_IsBlockFree ==
    GridReady =>
        \A row \in 0 .. grid.rows : \A col \in 0 .. grid.cols : \A span \in 1 .. MaxRows + 1 :
            LET inside == row + span <= grid.rows /\ col + span <= grid.cols
                taken == {p \in BlockCells(row, col, span) \cap DOMAIN grid.cells :
                             p \in OccupiedCells(grid) \/ p \in BlockedCells(grid)}
            IN  /\ ~inside => ~is_block_free(grid, row, col, span)
                /\ (inside /\ taken # {}) => ~is_block_free(grid, row, col, span)
                /\ (inside /\ taken = {}) => is_block_free(grid, row, col, span)

\* a grid after a commit in which the cell of the last row and column is a free
\* block, a blocked cell without a placement is not, and a 2x2 block inside the
\* grid is not
C21_Witness ==
    /\ GridReady /\ CommittedCells # {}
    /\ is_block_free(grid, grid.rows - 1, grid.cols - 1, 1)
    /\ \E p \in BlockedCells(grid) : ~is_block_free(grid, p[1], p[2], 1)
    /\ \E p \in DOMAIN grid.cells :
           /\ BlockCells(p[1], p[2], 2) \subseteq DOMAIN grid.cells
           /\ ~is_block_free(grid, p[1], p[2], 2)

\* C22: the companion score is 2 x (neighbours in the beneficial list) - 3 x
\* (neighbours in the detrimental list), each occurrence counted and a neighbour in
\* both lists counted in both; the score of a concatenation is the sum of the
\* scores of its parts and every permutation of the neighbours scores the same
Returned(fn) == pc = "returned" /\ call.fn = fn

Perms(n) == {f \in [1 .. n -> 1 .. n] : \A i \in 1 .. n : \A j \in 1 .. n : i # j => f[i] # f[j]}

C22_ScoreAdditive ==
    Returned("companion_score") =>
        LET v == call.vegetable
            n == call.neighbor_ids
        IN  /\ result.value =
                   2 * Cardinality({i \in DOMAIN n : n[i] \in v.good_companions})
                     - 3 * Cardinality({i \in DOMAIN n : n[i] \in v.bad_companions})
            /\ \A k \in 0 .. Len(n) :
                   companion_score(v, SubSeq(n, 1, k))
                       + companion_score(v, SubSeq(n, k + 1, Len(n))) = result.value
            /\ \A f \in Perms(Len(n)) :
                   companion_score(v, [i \in 1 .. Len(n) |-> n[f[i]]]) = result.value

\* a call returned -1 for a neighbour that is in both lists
C22_Witness ==
    /\ Returned("companion_score")
    /\ Len(call.neighbor_ids) = 3
    /\ call.neighbor_ids[2] \in call.vegetable.good_companions \cap call.vegetable.bad_companions
    /\ call.neighbor_ids[1] \notin call.vegetable.good_companions \cup call.vegetable.bad_companions
    /\ call.neighbor_ids[3] = call.neighbor_ids[1]
    /\ result.value = 0 - 1

\* C23: compatible(a, b) is false exactly when a lists b as detrimental or b lists
\* a as detrimental, and compatible(a, b) = compatible(b, a), also when only one of
\* the two lists names the other
C23_CompatibleSymmetric ==
    Returned("is_compatible") =>
        /\ (result.value = FALSE) <=>
               (call.b.id \in call.a.bad_companions \/ call.a.id \in call.b.bad_companions)
        /\ is_compatible(call.b, call.a) = result.value

\* a call returned false for two different varieties of which only the second
\* lists the other as detrimental
C23_Witness ==
    /\ Returned("is_compatible")
    /\ call.a.id # call.b.id
    /\ call.b.id \notin call.a.bad_companions
    /\ call.a.id \in call.b.bad_companions
    /\ result.value = FALSE

\* C24: the ranker outputs exactly the catalogue entries whose seasons contain the
\* requested season, whose sun, soil and region sets contain the requested value
\* when one is requested, and which are beginner-suitable when the level is
\* beginner: none that fails a test, and each that passes all of them once
Kept(v, req) ==
    /\ req.season \in v.seasons
    /\ req.sun = None \/ req.sun \in v.sun_requirement
    /\ req.soil = None \/ req.soil \in v.soil_types
    /\ req.region = None \/ req.region \in v.regions
    /\ req.level # "Beginner" \/ v.beginner_friendly

C24_FilterExact ==
    Returned("filter_vegetables") =>
        /\ \A i \in DOMAIN call.db :
               Cardinality({j \in DOMAIN result.value : result.value[j] = call.db[i]})
                   = IF Kept(call.db[i], call.request) THEN 1 ELSE 0
        /\ \A j \in DOMAIN result.value : \E i \in DOMAIN call.db : call.db[i] = result.value[j]

\* a call with every optional constraint and the beginner level returned the one
\* entry that passes; the other fails on the region only
C24_Witness ==
    /\ Returned("filter_vegetables")
    /\ call.request.sun # None /\ call.request.soil # None /\ call.request.region # None
    /\ call.request.level = "Beginner"
    /\ Len(call.db) = 2 /\ Len(result.value) = 1
    /\ result.value[1] = call.db[2]
    /\ Kept(call.db[1], [call.request EXCEPT !.region = None])

\* C25: in the ranker's output every entry named by the preference list precedes
\* every entry that is not; the named ones are in ascending order of their first
\* position in the list; the others are in ascending popularity rank with the
\* identifiers absent from the rank table last; entries of equal rank keep their
\* catalogue order
Preferred(v) == \E k \in DOMAIN call.request.preferences : call.request.preferences[k].id = v.id

FirstPosition(v) ==
    CHOOSE k \in DOMAIN call.request.preferences :
        /\ call.request.preferences[k].id = v.id
        /\ \A j \in 1 .. k - 1 : call.request.preferences[j].id # v.id

InRankTable(v) == v.id \in {"tomato", "carrot"}

CatalogueIndex(v) == CHOOSE i \in DOMAIN call.db : call.db[i] = v

C25_RankOrder ==
    Returned("filter_vegetables") =>
        \A i \in DOMAIN result.value : \A j \in DOMAIN result.value :
            LET x == result.value[i]
                y == result.value[j]
            IN  i < j =>
                  /\ Preferred(y) => Preferred(x)
                  /\ (Preferred(x) /\ Preferred(y)) => FirstPosition(x) < FirstPosition(y)
                  /\ (~Preferred(x) /\ ~Preferred(y)) =>
                        /\ InRankTable(y) => InRankTable(x)
                        /\ (InRankTable(x) /\ InRankTable(y)) =>
                               french_rank(x.id) < french_rank(y.id)
                        /\ (~InRankTable(x) /\ ~InRankTable(y)) =>
                               CatalogueIndex(x) < CatalogueIndex(y)

\* a call returned four entries: the preferred one, last in the catalogue, first;
\* then the ranked one; then the two unranked ones, which stood before it, in
\* catalogue order
C25_Witness ==
    /\ Returned("filter_vegetables") /\ Len(result.value) = 4
    /\ Preferred(result.value[1]) /\ CatalogueIndex(result.value[1]) = 4
    /\ ~Preferred(result.value[2]) /\ InRankTable(result.value[2])
    /\ ~InRankTable(result.value[3]) /\ ~InRankTable(result.value[4])
    /\ CatalogueIndex(result.value[3]) < CatalogueIndex(result.value[2])

\* C26: cell_span(s) is ceil(s / 30) with a minimum of 1: cell_span(0) = 1,
\* cell_span(30) = 1, cell_span(31) = 2, cell_span(90) = 3, and the result never
\* exceeds max(s, 1) (nothing is added to s before the division)
C26_CellSpan ==
    Returned("cell_span") =>
        LET s == call.spacing_cm
        IN  /\ result.value = IF s = 0 THEN 1 ELSE (s - 1) \div 30 + 1
            /\ result.value >= 1 /\ result.value <= Max(s, 1)
            /\ s = 0 => result.value = 1
            /\ s = 30 => result.value = 1
            /\ s = 31 => result.value = 2
            /\ s = 90 => result.value = 3

\* a call with a spacing just above one cell returned 2
C26_Witness ==
    /\ Returned("cell_span") /\ call.spacing_cm = 31 /\ result.value = 2

\* C27: plants_per_cell(s) is at least 1, it is 1 whenever cell_span(s) > 1, and
\* for cell_span(s) = 1 it is floor(30 / max(s, 1)) squared: a spacing of 0 counts
\* as 1 and nothing is divided by zero
C27_PlantsPerCell ==
    Returned("plants_per_cell") =>
        LET s == call.spacing_cm
            d == Max(s, 1)
        IN  /\ result.value >= 1
            /\ cell_span(s) > 1 => result.value = 1
            /\ cell_span(s) = 1 =>
                   \E k \in 1 .. 30 :
                       /\ k * d <= 30 /\ 30 < (k + 1) * d
                       /\ result.value = k * k

\* a call with the spacing 0 returned 900
C27_Witness ==
    /\ Returned("plants_per_cell") /\ call.spacing_cm = 0 /\ result.value = 900

\* C28: the response gives every grid cell exactly one of five states:
\* self-contained when the cell holds a placement, is its anchor and span is 1;
\* overflowing (width = length = span) when it is the anchor and span > 1;
\* overflowed, carrying the anchor coordinate only, when it holds a placement and
\* is not its anchor; blocked when it holds none and is blocked; empty otherwise.
\* The response grid has the dimensions of the planning grid
IsAnchor(v, p) == v.anchor_row = p[1] /\ v.anchor_col = p[2]

C28_FiveStates ==
    response.status = "Ok" =>
        /\ DOMAIN response.grid = DOMAIN grid.cells
        /\ response.rows = grid.rows /\ response.cols = grid.cols
        /\ grid.rows = Len(request.layout) /\ grid.cols = Len(request.layout[1])
        /\ \A p \in DOMAIN grid.cells :
              LET v == grid.cells[p].vegetable
                  c == response.grid[p]
              IN  /\ c.type \in {"SelfContained", "Overflowing", "Overflowed", "Blocked", "Empty"}
                  /\ c.type = "SelfContained" <=> (IsSome(v) /\ IsAnchor(v, p) /\ v.span = 1)
                  /\ c.type = "Overflowing" <=> (IsSome(v) /\ IsAnchor(v, p) /\ v.span > 1)
                  /\ c.type = "Overflowed" <=> (IsSome(v) /\ ~IsAnchor(v, p))
                  /\ c.type = "Blocked" <=> (~IsSome(v) /\ grid.cells[p].blocked)
                  /\ c.type = "Empty" <=> (~IsSome(v) /\ ~grid.cells[p].blocked)
                  /\ c.type \in {"SelfContained", "Overflowing"} =>
                        (c.id = v.id /\ c.reason = v.reason
                            /\ c.plants_per_cell = v.plants_per_cell)
                  /\ c.type = "Overflowing" =>
                        (c.width_cells = v.span /\ c.length_cells = v.span)
                  /\ c.type = "Overflowed" =>
                        c = [NoCell EXCEPT !.type = "Overflowed",
                                           !.covered_by_row = v.anchor_row,
                                           !.covered_by_col = v.anchor_col]
                  /\ c.type = "Blocked" => c = [NoCell EXCEPT !.type = "Blocked"]
                  /\ c.type = "Empty" => c = NoCell

ResponseTypes == {response.grid[p].type : p \in DOMAIN response.grid}

\* a response with an overflowing anchor, overflowed cells, a blocked cell and an
\* empty cell
C28_Witness ==
    /\ pc = "done" /\ response.status = "Ok"
    /\ {"Overflowing", "Overflowed", "Blocked", "Empty"} \subseteq ResponseTypes

\* C29: in the response every committed placement of span s > 1 is one overflowing
\* anchor at the top-left cell of its block with width = length = s, together with
\* exactly s * s - 1 overflowed cells whose covered-by coordinate is that anchor;
\* the covered-by coordinate of every overflowed cell designates an overflowing
\* cell; no anchor carries a covered-by coordinate
CoveredBy(c) == <<c.covered_by_row, c.covered_by_col>>

OverflowedBy(p) ==
    {q \in DOMAIN response.grid :
        response.grid[q].type = "Overflowed" /\ CoveredBy(response.grid[q]) = p}

C29_MultiCellShape ==
    response.status = "Ok" =>
        /\ \A p \in DOMAIN grid.cells :
              LET v == grid.cells[p].vegetable
                  a == <<v.anchor_row, v.anchor_col>>
              IN  (IsSome(v) /\ v.span > 1) =>
                    /\ a \in DOMAIN response.grid
                    /\ \A q \in BlockCells(a[1], a[2], v.span) : a[1] <= q[1] /\ a[2] <= q[2]
                    /\ p \in BlockCells(a[1], a[2], v.span)
                    /\ response.grid[a].type = "Overflowing"
                    /\ response.grid[a].id = v.id
                    /\ response.grid[a].width_cells = v.span
                    /\ response.grid[a].length_cells = v.span
        /\ \A p \in DOMAIN response.grid :
              LET c == response.grid[p]
              IN  /\ c.type = "Overflowing" =>
                        /\ c.width_cells > 1 /\ c.length_cells = c.width_cells
                        /\ OverflowedBy(p) = BlockCells(p[1], p[2], c.width_cells) \ {p}
                        /\ Cardinality(OverflowedBy(p)) = c.width_cells * c.width_cells - 1
                  /\ c.type = "Overflowed" =>
                        /\ CoveredBy(c) \in DOMAIN response.grid
                        /\ response.grid[CoveredBy(c)].type = "Overflowing"
                  /\ c.type \in {"SelfContained", "Overflowing"} =>
                        CoveredBy(c) = <<NoCoveredBy, NoCoveredBy>>

\* a response with two overflowing anchors, each with its overflowed cells
C29_Witness ==
    /\ pc = "done" /\ response.status = "Ok"
    /\ Cardinality({p \in DOMAIN response.grid :
                        response.grid[p].type = "Overflowing"}) = 2
    /\ \E p \in DOMAIN response.grid : response.grid[p].type = "Overflowed"

\* C30: when both phases have run, the response carries the residual-empty-cell
\* warning exactly when some cell of the final grid is neither blocked nor planted;
\* the warning appears at most once and the count it states is the number of Empty
\* cells of the response grid
EmptyCellsWarnings ==
    {k \in DOMAIN response.warnings : response.warnings[k].kind = "empty_cells"}

C30_EmptyCellsWarning ==
    (pc = "done" /\ response.status = "Ok" /\ ~FullyOccupied) =>
        /\ HasEmptyCellsWarning <=> FreeCells(grid) # {}
        /\ Cardinality(EmptyCellsWarnings) <= 1
        /\ \A k \in EmptyCellsWarnings :
              /\ response.warnings[k].count = Cardinality(EmptyInResponse)
              /\ response.warnings[k].count = Cardinality(FreeCells(grid))
              /\ k = Len(response.warnings)

\* both phases ran and left two cells empty: one warning, after a not-found warning,
\* states 2
C30_Witness ==
    /\ pc = "done" /\ response.status = "Ok" /\ ~FullyOccupied
    /\ Cardinality(EmptyInResponse) = 2
    /\ Len(response.warnings) = 2
    /\ response.warnings[1].kind = "not_found"
    /\ response.warnings[2] = EmptyCellsWarning(2)
    /\ CommittedCells # {}

\* C31: the score of the response is the sum, over the commits of phase 1 and of
\* phase 2, of the companion score of the committed variety against the neighbours
\* of the chosen block as they were just before the commit; pre-planted cells add
\* nothing, and the score is 0 when no commit is made
CommitAdds(p) ==
    LET v == grid'.cells[p].vegetable
    IN  /\ IsSome(v) /\ IsAnchor(v, p)
        /\ ~IsSome(grid.cells[p].vegetable)
        /\ score_phase1' + score_phase2' =
              score_phase1 + score_phase2
                + companion_score(Vegetable(v.id), NeighborIds(grid, p[1], p[2], v.span))

C31_ScoreIsSumOfCommits ==
    [][/\ pc = "start" =>
             /\ score_phase1' = 0 /\ score_phase2' = 0
             /\ response'.status = "Ok" => response'.score = 0
       /\ pc \in {"phase1", "phase2"} =>
             /\ grid' = grid => (score_phase1' = score_phase1 /\ score_phase2' = score_phase2)
             /\ grid' # grid => \E p \in DOMAIN grid.cells : CommitAdds(p)
             /\ pc = "phase1" => score_phase2' = score_phase2
             /\ pc = "phase2" => score_phase1' = score_phase1
       /\ pc = "finish" =>
             /\ response'.score = score_phase1 + score_phase2
             /\ CommittedCells = {} => response'.score = 0]_vars

\* a response whose score adds a non-zero score of phase 1 and a non-zero score of
\* phase 2, on a grid with a pre-planted cell
C31_Witness ==
    /\ pc = "done" /\ response.status = "Ok"
    /\ ResolvedPrePlanted # {}
    /\ score_phase1 # 0 /\ score_phase2 # 0
    /\ response.score = score_phase1 + score_phase2

\* C32 as stated: a layout cell pre-planted with an identifier the catalogue does
\* not resolve does not reject the request, records no placement of that
\* identifier, and adds exactly one warning that names the identifier and the
\* coordinates of the cell
UnresolvedPrePlanted ==
    {p \in DOMAIN grid.cells :
        LayoutAt(p).kind = "Planted" /\ ~get_vegetable_by_id_found(LayoutAt(p).id)}

\* the values a warning's text is formatted from are the fields of its record
NamesId(w, id) == w.id = id
NamesCell(w, p) ==
    /\ {"row", "col"} \subseteq DOMAIN w
    /\ w.row = p[1] /\ w.col = p[2]

WarningsAbout(p) ==
    {k \in DOMAIN response.warnings :
        /\ response.warnings[k].kind = "not_found"
        /\ NamesId(response.warnings[k], LayoutAt(p).id)
        /\ NamesCell(response.warnings[k], p)}

C32_Original ==
    /\ (pc = "done" /\ response.status = "Err") => Rejected
    /\ (pc = "done" /\ response.status = "Ok") =>
          \A p \in UnresolvedPrePlanted :
              /\ response.grid[p].id # LayoutAt(p).id
              /\ Cardinality(WarningsAbout(p)) = 1

\* what the warnings do carry: one warning per unresolved cell, in row-major order
\* of the cells, each naming the identifier alone, so that two cells with the same
\* unknown identifier get two equal warnings
NotFoundWarnings ==
    {k \in DOMAIN response.warnings : response.warnings[k].kind = "not_found"}

C32_WarnedByIdOnly ==
    (pc = "done" /\ response.status = "Ok") =>
        /\ Cardinality(NotFoundWarnings) = Cardinality(UnresolvedPrePlanted)
        /\ \A k \in NotFoundWarnings :
              /\ response.warnings[k] = NotFoundWarning(UnknownId)
              /\ k <= Cardinality(UnresolvedPrePlanted)
        /\ \A p \in UnresolvedPrePlanted : response.grid[p].id # LayoutAt(p).id

\* C33 as stated: the rationale of a commit is the first-placed note only for the
\* first placement on an empty grid; every other commit gets the qualifier chosen
\* by the sign of the block's score (good when positive, constrained when negative,
\* neutral when zero) followed by the names of the block's neighbours
Qualifier(score) ==
    IF score > 0 THEN "good" ELSE IF score < 0 THEN "constrained" ELSE "neutral"

NewAnchors ==
    {p \in DOMAIN grid.cells :
        /\ ~IsSome(grid.cells[p].vegetable)
        /\ IsSome(grid'.cells[p].vegetable)
        /\ IsAnchor(grid'.cells[p].vegetable, p)}

C33_Original ==
    [][(pc \in {"phase1", "phase2"} /\ grid' # grid) =>
          \A p \in NewAnchors :
              LET v == grid'.cells[p].vegetable
                  names == NeighborIds(grid, p[1], p[2], v.span)
                  score == companion_score(Vegetable(v.id), names)
              IN  IF OccupiedCells(grid) = {}
                  THEN v.reason.kind = "first"
                  ELSE /\ v.reason.kind = Qualifier(score)
                       /\ v.reason.neighbors = names]_vars

\* what the rationale is: the first-placed note exactly when the block has no
\* neighbour, on an empty grid or not, and the qualifier with the neighbours otherwise
C33_FirstWhenNoNeighbour ==
    [][(pc \in {"phase1", "phase2"} /\ grid' # grid) =>
          /\ Cardinality(NewAnchors) = 1
          /\ \A p \in NewAnchors :
              LET v == grid'.cells[p].vegetable
                  names == NeighborIds(grid, p[1], p[2], v.span)
                  score == companion_score(Vegetable(v.id), names)
              IN  IF names = << >>
                  THEN v.reason = [kind |-> "first", neighbors |-> << >>]
                  ELSE /\ v.reason.kind = Qualifier(score)
                       /\ v.reason.neighbors = names]_vars

\* C34: planning is a function of the ranked candidate list and the request: every
\* run commits the placements plan_garden(candidates, request) lists, in that
\* order, and ends with its grid, score and warnings; the identifier-keyed maps are
\* read by key only, so no order of their keys enters the result
AllAnchors(g) ==
    {p \in DOMAIN g.cells :
        IsCommitted(g.cells[p].vegetable) /\ IsAnchor(g.cells[p].vegetable, p)}

C34_Deterministic ==
    [][LET plan == plan_garden(candidates, request)
       IN  /\ pc' = "done" => response' = plan.response
           /\ (pc \in {"phase1", "phase2"} /\ grid' # grid) =>
                 LET k == Cardinality(AllAnchors(grid'))
                 IN  /\ k \in DOMAIN plan.order
                     /\ NewAnchors = {<<plan.order[k].row, plan.order[k].col>>}
                     /\ \A p \in NewAnchors : grid'.cells[p].vegetable.id = plan.order[k].id
           /\ pc' = "finish" => Cardinality(AllAnchors(grid')) = Len(plan.order)]_vars

\* a finished run whose queue named two varieties and that committed in both phases
C34_Witness ==
    /\ pc = "done" /\ response.status = "Ok"
    /\ \E i \in DOMAIN queue : \E j \in DOMAIN queue : queue[i] # queue[j]
    /\ response = plan_garden(candidates, request).response
    /\ Len(plan_garden(candidates, request).order) >= 3
    /\ Cardinality(DOMAIN placements_map) = 2

\* C35: when two planning requests run with their steps interleaved, each on its
\* own grid, ledger and queue, a step of one leaves every local of the other as
\* it was, and each request's response is the one it produces when run alone
C35_Isolated ==
    [][/\ suspended' # suspended => (suspended' = Local /\ Local' = suspended)
       /\ pc' = "done" => response' = plan_garden(candidates', request').response
       /\ suspended'.pc = "done" =>
             suspended'.response = plan_garden(suspended'.candidates, suspended'.request).response]_vars

\* both requests are under way, one in phase 2 and one in phase 1, each with a
\* commit on its own grid, on layouts of different sizes
C35_Witness ==
    /\ pc = "phase2" /\ suspended.pc = "phase1"
    /\ request.layout # suspended.request.layout
    /\ CommittedCells # {}
    /\ \E p \in DOMAIN suspended.grid.cells : IsCommitted(suspended.grid.cells[p].vegetable)

\* C36: every placement committed in phase 1 or phase 2 is of a variety of the
\* ranked candidate list; a variety that is not a candidate is in the grid only
\* where the layout pre-planted it; with no candidate nothing is committed
CandidateIds == {candidates[i] : i \in DOMAIN candidates}

C36_OnlyCandidates ==
    GridReady =>
        /\ \A p \in CommittedCells : grid.cells[p].vegetable.id \in CandidateIds
        /\ \A i \in DOMAIN queue : queue[i] \in CandidateIds
        /\ DOMAIN placements_map \subseteq CandidateIds
        /\ \A p \in DOMAIN grid.cells :
              LET v == grid.cells[p].vegetable
              IN  (IsSome(v) /\ v.id \notin CandidateIds) =>
                      /\ LayoutAt(p) = Planted(v.id)
                      /\ v = PrePlaced(v.id, p[1], p[2])
        /\ candidates = << >> => CommittedCells = {}

\* a finished run that committed placements, on a layout pre-planted with a variety
\* that is no candidate and with a preference asking for a variety that is none
C36_Witness ==
    /\ pc = "done" /\ response.status = "Ok"
    /\ CommittedCells # {}
    /\ \E p \in ResolvedPrePlanted : LayoutAt(p).id \notin CandidateIds
    /\ \E k \in DOMAIN request.preferences :
          /\ request.preferences[k].id \notin CandidateIds
          /\ request.preferences[k].quantity >= 1
    /\ FreeCells(grid) = {}

\* C37: a commit of either phase changes only the cells of the chosen span x span
\* block, all of them free just before; the other cells' placements, every blocked
\* flag and the dimensions stay as they were, the free-cell count drops by span *
\* span, and a cell that holds a placement keeps that placement in every later
\* state; the response builder leaves the grid as it is
C37_CommitFrame ==
    [][GridReady =>
          /\ grid'.rows = grid.rows /\ grid'.cols = grid.cols
          /\ DOMAIN grid'.cells = DOMAIN grid.cells
          /\ \A q \in DOMAIN grid.cells :
                /\ grid'.cells[q].blocked = grid.cells[q].blocked
                /\ IsSome(grid.cells[q].vegetable) =>
                      grid'.cells[q].vegetable = grid.cells[q].vegetable
          /\ pc = "finish" => grid' = grid
          /\ grid' # grid =>
                /\ pc \in {"phase1", "phase2"}
                /\ Cardinality(NewAnchors) = 1
                /\ \A p \in NewAnchors :
                      LET v == grid'.cells[p].vegetable
                          block == BlockCells(p[1], p[2], v.span)
                      IN  /\ v.span = SpanOf(v.id)
                          /\ block \subseteq FreeCells(grid)
                          /\ \A q \in block : grid'.cells[q].vegetable = v
                          /\ \A q \in DOMAIN grid.cells \ block :
                                grid'.cells[q] = grid.cells[q]
                          /\ Cardinality(FreeCells(grid')) =
                                Cardinality(FreeCells(grid)) - v.span * v.span]_vars

\* a 2 x 2 block was committed on a grid that also has a blocked cell and a
\* pre-planted cell, both untouched
C37_Witness ==
    /\ pc \in {"phase1", "phase2"}
    /\ \E p \in CommittedCells : grid.cells[p].vegetable.span = 2
    /\ BlockedCells(grid) # {}
    /\ \E p \in ResolvedPrePlanted : grid.cells[p].vegetable = PrePlaced(LayoutAt(p).id, p[1], p[2])

\* C38: a layout cell pre-planted with an identifier the catalogue does not
\* resolve is initialised unplanted and unblocked; it counts as a free cell in
\* the fully-occupied test and in the allocation budget, and the phases may
\* commit a placement on it
C38_UnresolvedIsFree ==
    [][(pc = "start" /\ pc' # "panic" /\ response'.status # "Err") =>
          /\ \A p \in UnresolvedPrePlanted' : grid'.cells[p] = EmptyCell
          /\ FreeCells(grid') = LayoutFree
          /\ pc' = "done" <=> LayoutFree = {}
          /\ pc' # "done" =>
                LET built == build_placement_queue(candidates, request.preferences,
                                                   Cardinality(LayoutFree))
                IN  queue' = built.queue /\ placements_map' = built.placements_map]_vars

\* the only free cell of the layout is one pre-planted with an unknown identifier:
\* the run went on, reserved it for a preference and committed on it in phase 1
C38_Witness ==
    /\ pc = "done" /\ response.status = "Ok"
    /\ Cardinality(LayoutFree) = 1
    /\ queue # << >>
    /\ \E p \in UnresolvedPrePlanted : IsCommitted(grid.cells[p].vegetable)

Broke == pc \in {"phase2", "finish"} /\ qi <= Len(queue)

C40_BreakMeansFull ==
    [][/\ (pc = "phase1" /\ Broke') =>
             /\ SpanOf(queue[qi]) = 1
             /\ FreeCells(grid) = {}
             /\ grid' = grid
             /\ \A k \in qi .. Len(queue) : ~find_best_block(grid, queue[k]).found
       /\ Broke =>
             /\ FreeCells(grid) = {}
             /\ grid' = grid
             /\ score_phase2' = 0
             /\ placements_this_pass' = 0
             /\ qi' = qi
             /\ pc' = "done" => (EmptyInResponse' = {} /\ ~HasEmptyCellsWarning')]_vars

\* a finished run whose phase 1 stopped with two queue entries left
C40_Witness ==
    /\ pc = "done" /\ response.status = "Ok"
    /\ qi + 1 <= Len(queue)
    /\ score_phase2 = 0
    /\ CommittedCells # {}

====
